---------------------------- MODULE Spec2Model ----------------------------
(***************************************************************************)
(* Model of the meal-session dashboard of the type-1-diabetes carb         *)
(* calculator: the quantity parser, the macro scaling / base derivation    *)
(* arithmetic of Dashboard.tsx, the IndexedDB stores it writes and the     *)
(* handlers that drive them.                                               *)
(*                                                                         *)
(* Numbers.  A JavaScript number is modelled as a record: a rational n/d   *)
(* in lowest terms (k = "num"), NaN (k = "nan") or an infinity ("pinf",    *)
(* "ninf").  Arithmetic is exact; the binary rounding of IEEE doubles is   *)
(* not modelled.  null is the record Null.                                 *)
(*                                                                         *)
(* Texts.  A JavaScript string the code inspects (quantities, chain and    *)
(* item names) is a sequence of one-character strings, so that trimming,   *)
(* lower-casing, regular expressions and Number() are computed and not     *)
(* assumed.  The texts the model types contain digits, ".", "-", "/",      *)
(* blanks and letters; none holds an exponent, a radix prefix or the word  *)
(* Infinity.                                                               *)
(***************************************************************************)
EXTENDS Integers, Sequences, FiniteSets, TLC

(***************************************************************************)
(* Bounds of the model.                                                    *)
(***************************************************************************)
MaxNow == 4
\* the ingredients a recipe session adds to the ingredient library
MaxIngredients == 2
\* the entries the meal journal takes
MaxJournal == 2
\* the persistence failures of one run
MaxFailures == 1

----------------------------------------------------------------------------
(* JavaScript numbers *)

RECURSIVE GCD(_, _)
GCD(a, b) == IF b = 0 THEN a ELSE GCD(b, a % b)

Abs(x) == IF x < 0 THEN -x ELSE x

\* The number n/d (d # 0), in lowest terms with a positive denominator.
Rat(n, d) ==
  LET g == GCD(Abs(n), Abs(d))
      s == IF d < 0 THEN -1 ELSE 1
  IN  [k |-> "num", n |-> (s * n) \div g, d |-> (s * d) \div g]

Int2Num(i) == Rat(i, 1)
Zero == Rat(0, 1)
NaN == [k |-> "nan", n |-> 0, d |-> 1]
PInf == [k |-> "pinf", n |-> 0, d |-> 1]
NInf == [k |-> "ninf", n |-> 0, d |-> 1]
Null == [k |-> "null", n |-> 0, d |-> 1]

IsNum(x) == x.k = "num"
IsNaN(x) == x.k = "nan"
IsInf(x) == x.k \in {"pinf", "ninf"}
\* -1, 0 or 1 for a number or an infinity
Sign(x) ==
  CASE x.k = "pinf" -> 1
    [] x.k = "ninf" -> -1
    [] OTHER -> IF x.n > 0 THEN 1 ELSE IF x.n < 0 THEN -1 ELSE 0
SignedInf(s) == IF s > 0 THEN PInf ELSE NInf

\* x > 0 and x <= 0 as JavaScript evaluates them: false on NaN
Gt0(x) == ~IsNaN(x) /\ Sign(x) > 0
Le0(x) == ~IsNaN(x) /\ Sign(x) <= 0

\* x * y
Mul(x, y) ==
  IF IsNaN(x) \/ IsNaN(y) THEN NaN
  ELSE IF IsInf(x) \/ IsInf(y)
       THEN IF Sign(x) * Sign(y) = 0 THEN NaN ELSE SignedInf(Sign(x) * Sign(y))
       ELSE Rat(x.n * y.n, x.d * y.d)

\* x / y
Div(x, y) ==
  IF IsNaN(x) \/ IsNaN(y) THEN NaN
  ELSE IF IsInf(x) THEN (IF IsInf(y) THEN NaN
                         ELSE SignedInf(IF Sign(y) < 0 THEN -Sign(x) ELSE Sign(x)))
  ELSE IF IsInf(y) THEN Zero
  ELSE IF y.n = 0 THEN (IF x.n = 0 THEN NaN ELSE SignedInf(Sign(x)))
  ELSE Rat(x.n * y.d, x.d * y.n)

\* x + y
Add(x, y) ==
  IF IsNaN(x) \/ IsNaN(y) THEN NaN
  ELSE IF IsInf(x) THEN (IF IsInf(y) /\ x # y THEN NaN ELSE x)
  ELSE IF IsInf(y) THEN y
  ELSE Rat(x.n * y.d + y.n * x.d, x.d * y.d)

\* Math.round(x): the integer nearest to x, a tie going up
MathRound(x) ==
  IF ~IsNum(x) THEN x ELSE Int2Num((2 * x.n + x.d) \div (2 * x.d))

\* Math.round(x * 100) / 100
Round2(x) == Div(MathRound(Mul(x, Int2Num(100))), Int2Num(100))

\* x || 0 on a number: 0 and NaN are falsy
OrZero(x) == IF IsNaN(x) \/ (IsNum(x) /\ x.n = 0) THEN Zero ELSE x

----------------------------------------------------------------------------
(* JavaScript strings *)

Digits == <<"0", "1", "2", "3", "4", "5", "6", "7", "8", "9">>
IsDigit(c) == \E i \in 1..10 : Digits[i] = c
DigitVal(c) == (CHOOSE i \in 1..10 : Digits[i] = c) - 1
IsSpace(c) == c = " "

RECURSIVE Pow10(_)
Pow10(e) == IF e = 0 THEN 1 ELSE 10 * Pow10(e - 1)

\* the value of a sequence of digits; 0 for the empty sequence
RECURSIVE DigitsVal(_)
DigitsVal(s) ==
  IF s = <<>> THEN 0
  ELSE 10 * DigitsVal(SubSeq(s, 1, Len(s) - 1)) + DigitVal(s[Len(s)])

AllDigits(s) == \A i \in 1..Len(s) : IsDigit(s[i])
\* \d+
IsDigitRun(s) == Len(s) > 0 /\ AllDigits(s)

\* String.prototype.trim
RECURSIVE TrimStart(_)
TrimStart(s) ==
  IF s # <<>> /\ IsSpace(s[1]) THEN TrimStart(Tail(s)) ELSE s
RECURSIVE TrimEnd(_)
TrimEnd(s) ==
  IF s # <<>> /\ IsSpace(s[Len(s)]) THEN TrimEnd(SubSeq(s, 1, Len(s) - 1)) ELSE s
Trim(s) == TrimEnd(TrimStart(s))

\* the positions of character c in s
Positions(s, c) == {i \in 1..Len(s) : s[i] = c}

\* an unsigned decimal literal: digits, digits "." digits?, or "." digits
IsUnsignedDecimal(s) ==
  LET dots == Positions(s, ".")
  IN  IF dots = {} THEN IsDigitRun(s)
      ELSE /\ Cardinality(dots) = 1
           /\ LET p == CHOOSE i \in dots : TRUE
                  ip == SubSeq(s, 1, p - 1)
                  fp == SubSeq(s, p + 1, Len(s))
              IN  AllDigits(ip) /\ AllDigits(fp) /\ Len(ip) + Len(fp) > 0
UnsignedDecimalVal(s) ==
  LET dots == Positions(s, ".")
  IN  IF dots = {} THEN Int2Num(DigitsVal(s))
      ELSE LET p == CHOOSE i \in dots : TRUE
               ip == SubSeq(s, 1, p - 1)
               fp == SubSeq(s, p + 1, Len(s))
           IN  Rat(DigitsVal(ip) * Pow10(Len(fp)) + DigitsVal(fp), Pow10(Len(fp)))

\* Number(text): blanks are trimmed, the empty text is 0, a signed decimal
\* literal is its value and anything else is NaN
NumberOf(text) ==
  LET t == Trim(text)
      neg == t # <<>> /\ t[1] = "-"
      body == IF t # <<>> /\ t[1] \in {"-", "+"} THEN Tail(t) ELSE t
  IN  IF t = <<>> THEN Zero
      ELSE IF IsUnsignedDecimal(body)
           THEN (IF neg THEN Mul(Int2Num(-1), UnsignedDecimalVal(body))
                 ELSE UnsignedDecimalVal(body))
           ELSE NaN

\* /^(\d+)\/(\d+)$/
IsFraction(t) ==
  \E p \in 1..Len(t) :
     /\ t[p] = "/"
     /\ IsDigitRun(SubSeq(t, 1, p - 1))
     /\ IsDigitRun(SubSeq(t, p + 1, Len(t)))
FractionParts(t) ==
  LET p == CHOOSE i \in 1..Len(t) : t[i] = "/"
  IN  <<DigitsVal(SubSeq(t, 1, p - 1)), DigitsVal(SubSeq(t, p + 1, Len(t)))>>

\* /^(\d+)\s+(\d+)\/(\d+)$/
IsMixed(t) ==
  \E a \in 1..Len(t) : \E b \in a..Len(t) :
     /\ \A i \in a..b : IsSpace(t[i])
     /\ IsDigitRun(SubSeq(t, 1, a - 1))
     /\ IsFraction(SubSeq(t, b + 1, Len(t)))
MixedParts(t) ==
  LET a == CHOOSE i \in 1..Len(t) : IsSpace(t[i]) /\ \A j \in 1..(i - 1) : ~IsSpace(t[j])
      rest == TrimStart(SubSeq(t, a, Len(t)))
  IN  <<DigitsVal(SubSeq(t, 1, a - 1))>> \o FractionParts(rest)

FractionOfMixedQuantity(input) ==
  LET trimmed == Trim(input)
      decimal == NumberOf(trimmed)
  IN  IF trimmed = <<>> THEN Null
      ELSE IF IsNum(decimal) THEN decimal
      ELSE IF IsFraction(trimmed)
           THEN LET f == FractionParts(trimmed)
                IN  IF f[2] = 0 THEN Null ELSE Rat(f[1], f[2])
      ELSE IF IsMixed(trimmed)
           THEN LET m == MixedParts(trimmed)
                IN  IF m[3] = 0 THEN Null ELSE Rat(m[2], m[3])
      ELSE Null
\* parseQuantity(input): a number, or Null
parseQuantity(input) ==
  LET trimmed == Trim(input)
      decimal == NumberOf(trimmed)
  IN  IF input = <<>> THEN Null
      ELSE IF trimmed = <<>> THEN Null
      ELSE IF IsNum(decimal) THEN decimal
      ELSE IF IsFraction(trimmed)
           THEN LET f == FractionParts(trimmed)
                IN  IF f[2] = 0 THEN Null ELSE Rat(f[1], f[2])
      ELSE IF IsMixed(trimmed)
           THEN LET m == MixedParts(trimmed)
                IN  IF m[3] = 0 THEN Null
                    ELSE Add(Int2Num(m[1]), Rat(m[2], m[3]))
      ELSE Null

\* x ?? y
Coalesce(x, y) == IF x = Null THEN y ELSE x


----------------------------------------------------------------------------
(* Names and catalog keys *)

UpperCase == <<"A", "B", "C", "D", "E", "F", "G", "H", "I", "J", "K", "L", "M",
               "N", "O", "P", "Q", "R", "S", "T", "U", "V", "W", "X", "Y", "Z">>
LowerCase == <<"a", "b", "c", "d", "e", "f", "g", "h", "i", "j", "k", "l", "m",
               "n", "o", "p", "q", "r", "s", "t", "u", "v", "w", "x", "y", "z">>
ToLowerChar(c) ==
  IF \E i \in 1..26 : UpperCase[i] = c
  THEN LowerCase[CHOOSE i \in 1..26 : UpperCase[i] = c]
  ELSE c
ToLowerCase(s) == [i \in 1..Len(s) |-> ToLowerChar(s[i])]

\* replace(/\s+/g, ' ')
RECURSIVE CollapseSpaces(_)
CollapseSpaces(s) ==
  IF s = <<>> THEN <<>>
  ELSE IF IsSpace(s[1]) /\ Len(s) > 1 /\ IsSpace(s[2]) THEN CollapseSpaces(Tail(s))
  ELSE <<s[1]>> \o CollapseSpaces(Tail(s))

normalizeKey(value) == CollapseSpaces(ToLowerCase(Trim(value)))

buildKey(sourceType, chain, itemName) ==
  <<sourceType, "|">> \o normalizeKey(chain) \o <<"|">> \o normalizeKey(itemName)

\* an optional text or unit that is undefined
Undefined == <<"<undefined>">>
NoUnit == "<undefined>"

----------------------------------------------------------------------------
(* Macro derivation: Dashboard.tsx *)

MacroFields == {"calories", "fatG", "sodiumMg", "carbsG", "fiberG", "sugarG", "proteinG"}
ZeroMacros == [f \in MacroFields |-> Zero]

mapMealSourceToCatalogType(source) ==
  IF source = "Fast Food" THEN "FAST_FOOD"
  ELSE IF source = "Restaurant" THEN "RESTAURANT"
  ELSE "null"

isPhysicalBasisUnit(unit) ==
  IF unit = NoUnit THEN FALSE
  ELSE unit \in {"g", "ml", "mL", "oz", "fl oz", "cup", "tbsp", "tsp"}

IsFastFoodOrRestaurant(source) == source = "Fast Food" \/ source = "Restaurant"

\* the base macros read from the form: Number(text) || 0
baseMacrosOf(formData) == [f \in MacroFields |-> OrZero(NumberOf(formData[f]))]

\* the validation of handleAddFood: the message it sets, or "" when it passes
AmountBlindFormError(source, formData) ==
  LET perQuantity == parseQuantity(formData.perQuantityRaw)
  IN  IF IsFastFoodOrRestaurant(source) /\ Trim(formData.chain) = <<>>
        THEN "Please enter a chain name"
      ELSE IF IsFastFoodOrRestaurant(source) /\ Trim(formData.foodItem) = <<>>
        THEN "Please enter a food item"
      ELSE IF perQuantity = Null \/ Le0(perQuantity)
        THEN "Invalid Per Quantity"
      ELSE ""
AddFoodFormError(source, formData) ==
  LET perQuantity == parseQuantity(formData.perQuantityRaw)
      amountHaving == NumberOf(formData.amountHaving)
      servingSizeAmount == NumberOf(formData.servingSizeAmount)
  IN  IF IsFastFoodOrRestaurant(source) /\ Trim(formData.chain) = <<>>
        THEN "Please enter a chain name"
      ELSE IF IsFastFoodOrRestaurant(source) /\ Trim(formData.foodItem) = <<>>
        THEN "Please enter a food item"
      ELSE IF IsFastFoodOrRestaurant(source) /\ formData.perQuantityUnit = NoUnit
        THEN "Please select a Per Qty Unit"
      ELSE IF ~IsFastFoodOrRestaurant(source) /\ Trim(formData.name) = <<>>
        THEN "Please enter a food name"
      ELSE IF ~IsFastFoodOrRestaurant(source)
              /\ (IsNaN(servingSizeAmount) \/ Le0(servingSizeAmount))
        THEN "Invalid Serving Size"
      ELSE IF perQuantity = Null \/ Le0(perQuantity)
        THEN "Invalid Per Quantity"
      ELSE IF IsNaN(amountHaving) \/ Le0(amountHaving)
        THEN "Invalid Amount Having"
      ELSE ""

\* const isPhysical = isFastFoodOrRestaurant && isPhysicalBasisUnit(perQuantityUnit)
FormIsPhysical(source, formData) ==
  IsFastFoodOrRestaurant(source) /\ isPhysicalBasisUnit(formData.perQuantityUnit)

\* const multiplier = isPhysical ? amountHaving : (amountHaving / perQuantity)
AlwaysDivideMultiplier(isPhysical, amountHaving, perQuantity) ==
  Div(amountHaving, perQuantity)
InvertedMultiplier(isPhysical, amountHaving, perQuantity) ==
  IF isPhysical THEN amountHaving ELSE Div(perQuantity, amountHaving)
PhysicalInvertedMultiplier(isPhysical, amountHaving, perQuantity) ==
  IF isPhysical THEN Div(perQuantity, amountHaving) ELSE Div(amountHaving, perQuantity)
ForwardMultiplier(isPhysical, amountHaving, perQuantity) ==
  IF isPhysical THEN amountHaving ELSE Div(amountHaving, perQuantity)

\* Math.round(base.field * multiplier * 100) / 100, field by field
ScaleMacros(baseMacros, multiplier) ==
  [f \in MacroFields |-> Round2(Mul(baseMacros[f], multiplier))]

\* calculatedMacros of handleAddFood for a form that passed validation
calculatedMacros(baseMacros, source, formData) ==
  ScaleMacros(baseMacros,
              ForwardMultiplier(FormIsPhysical(source, formData),
                                NumberOf(formData.amountHaving),
                                parseQuantity(formData.perQuantityRaw)))

\* the record handleAddFood hands to addMealLineItem, which adds id and
\* createdAt (the display-only notes, servingSize and nameLower are left out)
NewLineItem(id, createdAt, sessionId, source, formData, order) ==
  [id |-> id,
   sessionId |-> sessionId,
   name |-> IF IsFastFoodOrRestaurant(source)
            THEN formData.chain \o <<" ", "-", " ">> \o formData.foodItem
            ELSE formData.name,
   source |-> source,
   chain |-> IF Trim(formData.chain) = <<>> THEN Undefined ELSE Trim(formData.chain),
   foodItem |-> IF Trim(formData.foodItem) = <<>> THEN Undefined
                ELSE Trim(formData.foodItem),
   quantity |-> NumberOf(formData.amountHaving),
   macros |-> calculatedMacros(baseMacrosOf(formData), source, formData),
   order |-> order,
   perQuantityRaw |-> formData.perQuantityRaw,
   perType |-> IF IsFastFoodOrRestaurant(source)
               THEN (IF formData.perQuantityUnit = NoUnit THEN "order"
                     ELSE formData.perQuantityUnit)
               ELSE formData.perUnit,
   createdAt |-> createdAt]

\* the divisor of deriveBaseMacros
QuantityOnlyDivisor(lineItem) ==
  IF Gt0(lineItem.quantity) THEN lineItem.quantity ELSE Int2Num(1)
PerQuantityOnlyDivisor(lineItem) ==
  LET perQuantity == Coalesce(parseQuantity(lineItem.perQuantityRaw), Int2Num(1))
  IN  IF Gt0(Div(lineItem.quantity, perQuantity))
      THEN Div(lineItem.quantity, perQuantity) ELSE Int2Num(1)
UncheckedDivisor(lineItem) ==
  IF IsFastFoodOrRestaurant(lineItem.source) /\ isPhysicalBasisUnit(lineItem.perType)
  THEN lineItem.quantity
  ELSE Div(lineItem.quantity,
           Coalesce(parseQuantity(lineItem.perQuantityRaw), Int2Num(1)))
DeriveDivisor(lineItem) ==
  IF IsFastFoodOrRestaurant(lineItem.source) /\ isPhysicalBasisUnit(lineItem.perType)
  THEN (IF Gt0(lineItem.quantity) THEN lineItem.quantity ELSE Int2Num(1))
  ELSE LET perQuantity ==
             Coalesce(parseQuantity(IF lineItem.perQuantityRaw = Undefined
                                    THEN <<"1">> ELSE lineItem.perQuantityRaw),
                      Int2Num(1))
           multiplier == IF Gt0(perQuantity) THEN Div(lineItem.quantity, perQuantity)
                         ELSE Int2Num(1)
       IN  IF Gt0(multiplier) THEN multiplier ELSE Int2Num(1)

deriveBaseMacros(lineItem) ==
  [f \in MacroFields |-> Round2(Div(lineItem.macros[f], DeriveDivisor(lineItem)))]


----------------------------------------------------------------------------
(* State *)

VARIABLES
  session,        \* Dashboard: the active session (React state)
  lineItems,      \* Dashboard: the line items shown, sorted by order
  formData,       \* Dashboard: the add-food form
  formError,      \* Dashboard: the inline error of the form ("" for null)
  editingId,      \* Dashboard: id of the row being edited (0 for null)
  editQuantity,   \* Dashboard: the text of the inline quantity editor
  currentBsl,     \* Dashboard: blood-sugar text of the session header
  sessionNotes,   \* Dashboard: notes text of the session header
  saveToCatalog,  \* Dashboard: "Save manual entry to Eating Out Library"
  mealSessions,   \* IndexedDB store mealSessions, by id
  mealLineItems,  \* IndexedDB store mealLineItems, by id
  foodCatalog,    \* IndexedDB store foodCatalog, by id
  eatingOutItems, \* IndexedDB store eatingOutItems of the library page, by id
  editingItem,    \* library page: the entry in the modal (id 0 for null, -1 closed)
  formState,      \* library page: the form of the modal, with its formError
  now,            \* Date.now()
  nextId,         \* the ids newId / randomUUID have handed out, per store
  history,        \* history: what was logged, created and saved so far
  eng,            \* the derivation engine applied to one input
  blocks,         \* RecipeBuilder: the recipe blocks (React state)
  recipeStores,   \* IndexedDB stores of recipe mode, in insertion order
  journal,        \* the meal journal stores and the outcome of the last call
  inflight        \* the handlers that wait at an await, with what they captured

dashVars == <<session, lineItems, formData, formError, editingId, editQuantity,
              currentBsl, sessionNotes, saveToCatalog>>
storeVars == <<mealSessions, mealLineItems, foodCatalog, eatingOutItems>>
vars == <<session, lineItems, formData, formError, editingId, editQuantity,
          currentBsl, sessionNotes, saveToCatalog, mealSessions, mealLineItems,
          foodCatalog, eatingOutItems, editingItem, formState, now, nextId,
          history, eng,
          blocks, recipeStores,
          journal, inflight>>

----------------------------------------------------------------------------
(* Inputs the model types into the forms *)

T0 == <<"0">>
T1 == <<"1">>

initialFormData ==
  [name |-> <<>>, chain |-> <<>>, foodItem |-> <<>>, servingSizeAmount |-> <<>>,
   perQuantityRaw |-> T1, perUnit |-> "serving", perQuantityUnit |-> "order",
   calories |-> T0, fatG |-> T0, sodiumMg |-> T0, carbsG |-> T0, fiberG |-> T0,
   sugarG |-> T0, proteinG |-> T0, amountHaving |-> T1]

Sources == {"Home Meal", "Fast Food", "Restaurant"}
DashSources == {"Home Meal", "Fast Food"}

\* macro texts: the burger of the specification, then profiles that give every
\* field every value of MacroTexts in turn
MacroOrder == <<"calories", "fatG", "sodiumMg", "carbsG", "fiberG", "sugarG", "proteinG">>
MacroTexts == << <<"1">>, <<"0", ".", "0", "7">>, <<"0", ".", "0", "0", "4">>,
                 <<"5", "2">>, <<"5">>, <<"-", "1">>, <<>> >>
BurgerProfile ==
  [calories |-> <<"1", "5", "0">>, fatG |-> <<"5">>, sodiumMg |-> <<"2", "0", "0">>,
   carbsG |-> <<"2", "0">>, fiberG |-> <<"3">>, sugarG |-> <<"5">>, proteinG |-> <<"8">>]
MacroProfile(i) ==
  [f \in MacroFields |->
     MacroTexts[(((CHOOSE j \in 1..7 : MacroOrder[j] = f) + i) % 7) + 1]]
EngineProfiles == {BurgerProfile} \cup {MacroProfile(i) : i \in 0..6}

PerQuantityTexts ==
  { <<"1">>, <<"2">>, <<"3">>, <<"1", "/", "2">>, <<"2", "/", "3">>,
    <<"1", " ", "1", "/", "2">>, <<"1", "0", "0">>, <<"0">>, <<"1", "/", "0">>,
    <<"a">>, <<>> }
AmountTexts ==
  { <<"1">>, <<"2">>, <<"3">>, <<"0", ".", "5">>, <<"2", ".", "5">>, <<"0">>,
    <<"a">>, <<>> }

WithMacros(form, profile) ==
  [f \in DOMAIN form |-> IF f \in MacroFields THEN profile[f] ELSE form[f]]

EngineForms ==
  { WithMacros([initialFormData EXCEPT !.name = <<"P", "i", "e">>,
                                      !.chain = <<"K", "F", "C">>,
                                      !.foodItem = <<"F", "r", "y">>,
                                      !.servingSizeAmount = <<"1", "0", "0">>,
                                      !.perQuantityRaw = pq,
                                      !.perUnit = pu,
                                      !.perQuantityUnit = pqu,
                                      !.amountHaving = ah], prof) :
      pq \in PerQuantityTexts, pu \in {"serving", "g"}, pqu \in {"order", "g"},
      ah \in AmountTexts, prof \in EngineProfiles }

----------------------------------------------------------------------------
(* The derivation engine on one input: log an item from a form as            *)
(* handleAddFood computes it, derive its base as the session save does, and  *)
(* scale that base again with the same quantities.                           *)

NoItem == [id |-> 0]
EngIdle == [phase |-> "idle", source |-> "Home Meal", form |-> initialFormData,
            item |-> NoItem, base |-> ZeroMacros, again |-> ZeroMacros]

EngLog ==
  /\ eng.phase = "input"
  /\ AddFoodFormError(eng.source, eng.form) = ""
  /\ eng' = [eng EXCEPT !.phase = "scaled",
                        !.item = NewLineItem(1, 0, 1, eng.source, eng.form, 1)]
  /\ UNCHANGED <<dashVars, storeVars, editingItem, formState, now, nextId, history,
                 blocks, recipeStores,
                 journal, inflight>>

EngReject ==
  /\ eng.phase = "input"
  /\ AddFoodFormError(eng.source, eng.form) # ""
  /\ eng' = [eng EXCEPT !.phase = "rejected"]
  /\ UNCHANGED <<dashVars, storeVars, editingItem, formState, now, nextId, history,
                 blocks, recipeStores,
                 journal, inflight>>

EngDerive ==
  /\ eng.phase = "scaled"
  /\ eng' = [eng EXCEPT !.phase = "derived", !.base = deriveBaseMacros(eng.item)]
  /\ UNCHANGED <<dashVars, storeVars, editingItem, formState, now, nextId, history,
                 blocks, recipeStores,
                 journal, inflight>>

EngRescale ==
  /\ eng.phase = "derived"
  /\ eng' = [eng EXCEPT !.phase = "rescaled",
                        !.again = calculatedMacros(eng.base, eng.source, eng.form)]
  /\ UNCHANGED <<dashVars, storeVars, editingItem, formState, now, nextId, history,
                 blocks, recipeStores,
                 journal, inflight>>


----------------------------------------------------------------------------
(* IndexedDB object stores: functions from the primary key to the record *)

EmptyStore == <<>>
\* store.put(record): upsert by primary key
putOne(store, record) ==
  [i \in DOMAIN store \cup {record.id} |-> IF i = record.id THEN record ELSE store[i]]
\* store.delete(key)
deleteOne(store, key) == [i \in DOMAIN store \ {key} |-> store[i]]
Records(store) == {store[i] : i \in DOMAIN store}

RECURSIVE DeleteAll(_, _)
DeleteAll(store, items) ==
  IF items = <<>> THEN store
  ELSE DeleteAll(deleteOne(store, items[1].id), Tail(items))

\* the sequences that hold each element of S once
Orderings(S) ==
  {q \in [1..Cardinality(S) -> S] : \A i, j \in DOMAIN q : i # j => q[i] # q[j]}

\* listMealLineItems(sessionId) followed by the sort of loadLineItems: the
\* items of the session by ascending order; items of equal order come in the
\* order of their random keys, which is any order
LoadedLineItems(store, sessionId) ==
  {q \in Orderings({r \in Records(store) : r.sessionId = sessionId}) :
     \A i, j \in DOMAIN q : i < j => q[i].order <= q[j].order}

LastItemTotals(items) ==
  IF items = <<>> THEN ZeroMacros ELSE items[Len(items)].macros
\* the totals of the dashboard: the field-wise sum over the items shown
RECURSIVE totals(_)
totals(items) ==
  IF items = <<>> THEN ZeroMacros
  ELSE LET rest == totals(SubSeq(items, 1, Len(items) - 1))
       IN  [f \in MacroFields |-> Add(rest[f], items[Len(items)].macros[f])]

----------------------------------------------------------------------------
(* foodCatalogRepo.ts *)

KeyOfEntry(e) == buildKey(e.sourceType, e.chain, e.itemName)

\* index('key').get(key): the entry with that key and the lowest primary key
findByKey(store, sourceType, chain, itemName) ==
  LET hits == {i \in DOMAIN store : store[i].key = buildKey(sourceType, chain, itemName)}
  IN  IF hits = {} THEN NoItem
      ELSE store[CHOOSE i \in hits : \A j \in hits : i <= j]

\* upsertFoodCatalogItem(item) at time t, newId giving fresh: item.id = 0
\* stands for an item without id.  The store after the call.
upsertFoodCatalogItem(store, item, t, fresh) ==
  LET key == buildKey(item.sourceType, item.chain, item.itemName)
      existingByKey == findByKey(store, item.sourceType, item.chain, item.itemName)
      existingById == IF item.id # 0 /\ item.id \in DOMAIN store
                      THEN store[item.id] ELSE NoItem
      target == IF existingById # NoItem THEN existingById ELSE existingByKey
      id == IF target # NoItem THEN target.id
            ELSE IF item.id # 0 THEN item.id ELSE fresh
      createdAt == IF target # NoItem THEN target.createdAt ELSE t
  IN  putOne(store,
             [id |-> id, sourceType |-> item.sourceType, chain |-> item.chain,
              itemName |-> item.itemName, basisQty |-> item.basisQty,
              basisUnit |-> item.basisUnit, macros |-> item.macros,
              createdAt |-> createdAt, updatedAt |-> t, key |-> key])

\* the next id newId('catalog') will give, after the store grew from old to new
NextFresh(fresh, old, new) ==
  IF Cardinality(DOMAIN new) > Cardinality(DOMAIN old) THEN fresh + 1 ELSE fresh


\* String.prototype.indexOf(" - "), 0 when absent, 1-based otherwise
IndexOfDash(s) ==
  LET hits == {i \in 1..(Len(s) - 2) : s[i] = " " /\ s[i + 1] = "-" /\ s[i + 2] = " "}
  IN  IF hits = {} THEN 0 ELSE CHOOSE i \in hits : \A j \in hits : i <= j

OrEmpty(text) == IF text = Undefined THEN <<>> ELSE text

\* the chain and the food item upsertEatingOutCatalogFromSession reads from a
\* line item, the name split on " - " filling in for a missing one
CatalogNames(item) ==
  LET chain == Trim(OrEmpty(item.chain))
      foodItem == Trim(OrEmpty(item.foodItem))
      at == IndexOfDash(item.name)
  IN  IF (chain = <<>> \/ foodItem = <<>>) /\ at # 0
      THEN [chain |-> IF chain # <<>> THEN chain
                      ELSE Trim(SubSeq(item.name, 1, at - 1)),
            foodItem |-> IF foodItem # <<>> THEN foodItem
                         ELSE Trim(SubSeq(item.name, at + 3, Len(item.name)))]
      ELSE [chain |-> chain, foodItem |-> foodItem]

\* what the session save writes over an existing entry: the entry's own values
DerivedOverExisting(existing, derived) ==
  [derived EXCEPT !.id = existing.id]
ExistingEntryInput(existing, derived) ==
  [id |-> existing.id, sourceType |-> existing.sourceType, chain |-> existing.chain,
   itemName |-> existing.itemName, basisQty |-> existing.basisQty,
   basisUnit |-> existing.basisUnit, macros |-> existing.macros]

\* an entry that keeps the macros as logged, scaled to the amount had
ScaledEntryInput(item) ==
  [id |-> 0, sourceType |-> mapMealSourceToCatalogType(item.source),
   chain |-> CatalogNames(item).chain, itemName |-> CatalogNames(item).foodItem,
   basisQty |-> Coalesce(parseQuantity(item.perQuantityRaw), Int2Num(1)),
   basisUnit |-> item.perType, macros |-> item.macros]

\* what the session save inserts for an item the catalog does not hold yet
DerivedEntryInput(item) ==
  LET names == CatalogNames(item)
      basisQty == Coalesce(parseQuantity(IF item.perQuantityRaw = Undefined
                                         THEN <<"1">> ELSE item.perQuantityRaw),
                           Int2Num(1))
  IN  [id |-> 0, sourceType |-> mapMealSourceToCatalogType(item.source),
       chain |-> names.chain, itemName |-> names.foodItem,
       basisQty |-> IF Gt0(basisQty) THEN basisQty ELSE Int2Num(1),
       basisUnit |-> IF item.perType = NoUnit \/ item.perType = "" THEN "order"
                     ELSE item.perType,
       macros |-> deriveBaseMacros(item)]

\* one turn of the loop of upsertEatingOutCatalogFromSession
UpsertFromLineItem(store, item, t, fresh) ==
  LET sourceType == mapMealSourceToCatalogType(item.source)
      names == CatalogNames(item)
      existing == findByKey(store, sourceType, names.chain, names.foodItem)
  IN  IF sourceType = "null" THEN store
      ELSE IF names.chain = <<>> \/ names.foodItem = <<>> THEN store
      ELSE IF existing # NoItem
        THEN upsertFoodCatalogItem(store,
                                   ExistingEntryInput(existing, DerivedEntryInput(item)),
                                   t, fresh)
      ELSE upsertFoodCatalogItem(store, DerivedEntryInput(item), t, fresh)

\* upsertEatingOutCatalogFromSession(items): the store and the next fresh id
RECURSIVE upsertEatingOutCatalogFromSession(_, _, _, _)
upsertEatingOutCatalogFromSession(store, items, t, fresh) ==
  IF items = <<>> THEN [store |-> store, fresh |-> fresh]
  ELSE LET after == UpsertFromLineItem(store, items[1], t, fresh)
       IN  upsertEatingOutCatalogFromSession(after, Tail(items), t,
                                             NextFresh(fresh, store, after))

\* what handleAddFood caches in the catalog: the base macros of the form
FormEntryInput(source, form) ==
  LET perQuantity == parseQuantity(form.perQuantityRaw)
  IN  [id |-> 0, sourceType |-> mapMealSourceToCatalogType(source),
       chain |-> Trim(form.chain), itemName |-> Trim(form.foodItem),
       basisQty |-> IF Gt0(perQuantity) THEN perQuantity ELSE Int2Num(1),
       basisUnit |-> IF form.perQuantityUnit = NoUnit THEN "order"
                     ELSE form.perQuantityUnit,
       macros |-> baseMacrosOf(form)]


----------------------------------------------------------------------------
(* Number.prototype.toString for the quantities the editor shows *)

RECURSIVE IntText(_)
IntText(i) ==
  IF i < 10 THEN <<Digits[i + 1]>> ELSE IntText(i \div 10) \o <<Digits[(i % 10) + 1]>>

\* the digits after the point of n/d (n < d), at most k of them
RECURSIVE FracText(_, _, _)
FracText(n, d, k) ==
  IF n = 0 \/ k = 0 THEN <<>>
  ELSE <<Digits[((10 * n) \div d) + 1]>> \o FracText((10 * n) % d, d, k - 1)

NumToText(x) ==
  IF IsNaN(x) THEN <<"N", "a", "N">>
  ELSE IF ~IsNum(x) THEN <<"I", "n", "f">>
  ELSE LET a == Abs(x.n)
           frac == FracText(a % x.d, x.d, 16)
       IN  (IF x.n < 0 THEN <<"-">> ELSE <<>>)
           \o IntText(a \div x.d)
           \o (IF frac = <<>> THEN <<>> ELSE <<".">> \o frac)

----------------------------------------------------------------------------
(* The form of the library page *)

initialFormState ==
  [sourceType |-> "FAST_FOOD", chain |-> <<>>, itemName |-> <<>>, basisQty |-> T1,
   basisUnit |-> <<"b", "u", "r", "g", "e", "r">>,
   calories |-> T0, fatG |-> T0, sodiumMg |-> T0, carbsG |-> T0, fiberG |-> T0,
   sugarG |-> T0, proteinG |-> T0, formError |-> ""]

\* toFormState(item)
toFormState(item) ==
  [sourceType |-> item.sourceType, chain |-> item.chain, itemName |-> item.itemName,
   basisQty |-> NumToText(item.basisQty), basisUnit |-> item.basisUnit,
   calories |-> NumToText(item.macros.calories), fatG |-> NumToText(item.macros.fatG),
   sodiumMg |-> NumToText(item.macros.sodiumMg),
   carbsG |-> NumToText(item.macros.carbsG), fiberG |-> NumToText(item.macros.fiberG),
   sugarG |-> NumToText(item.macros.sugarG),
   proteinG |-> NumToText(item.macros.proteinG), formError |-> ""]

----------------------------------------------------------------------------
(* The dashboard *)

SessionId == 1

\* createMealSession({timestamp, category: 'Breakfast', primarySource: 'Home Meal'})
\* at time t; an absent field of the record holds its marker: Undefined notes,
\* Null bsl, no lineItems, zero totals, saved FALSE, createdAt -1
NewSession(t) ==
  [id |-> SessionId, timestamp |-> t, category |-> "Breakfast",
   primarySource |-> "Home Meal", bsl |-> Null, lineItems |-> <<>>,
   totals |-> ZeroMacros, saved |-> FALSE, notes |-> Undefined, createdAt |-> -1]

\* nothing logged, no catalog entry created, no session saved
NoHistory ==
  [logged |-> <<>>, created |-> <<>>, savedKeys |-> <<>>, entered |-> <<>>,
   cancelled |-> FALSE, failures |-> <<>>]

\* history: the entries of the catalog that are new get their first macros
\* recorded, with the number of sessions saved before
Created(h, catalog) ==
  [i \in DOMAIN catalog |->
     IF i \in DOMAIN h.created THEN h.created[i]
     ELSE [id |-> i, macros |-> catalog[i].macros, saves |-> Len(h.savedKeys)]]

\* RecipeBuilder.toNumber: Number(value), and 0 where that is NaN
RecipeToNumber(value) ==
  LET n == NumberOf(value) IN IF IsNaN(n) THEN Zero ELSE n

\* RecipeBuilder.computeTotals: every field of every ingredient times the
\* parsed Per text of the ingredient, 1 where the text does not parse; the
\* fields fat ... protein of an ingredient row are named as in MacroTotals
RECURSIVE computeTotals(_)
computeTotals(ingredients) ==
  IF ingredients = <<>> THEN ZeroMacros
  ELSE LET acc == computeTotals(SubSeq(ingredients, 1, Len(ingredients) - 1))
           ing == ingredients[Len(ingredients)]
           factor == Coalesce(parseQuantity(ing.perRaw), Int2Num(1))
       IN  [f \in MacroFields |-> Add(acc[f], Mul(ing.values[f], factor))]

\* the row RecipeBuilder.handleAddIngredient appends for an entry form
IngredientRow(input) ==
  LET factor == parseQuantity(input.perRaw)
  IN  [name |-> Trim(input.name),
       perRaw |-> IF factor # Null /\ Gt0(factor) THEN input.perRaw ELSE T1,
       perType |-> input.perType,
       values |-> [f \in MacroFields |-> RecipeToNumber(input.values[f])]]

\* Date.now() as a line-item order: milliseconds since 1970, above the
\* position numbers the add-food form gives
EpochMillis(t) == 1000 + t

\* the line item RecipeBuilder.handleAddToMealLog hands to addMealLineItem,
\* which adds id and createdAt; the item has no chain, food item, Per text or
\* Per unit, and its order is the clock reading
RecipeLineItem(id, t, sessionId, block) ==
  LET amount == RecipeToNumber(IF block.amountHaving = <<>> THEN T1
                               ELSE block.amountHaving)
      recipeTotals == computeTotals(block.ingredients)
  IN  [id |-> id,
       sessionId |-> sessionId,
       name |-> (IF block.name = <<>> THEN <<"R", "e", "c", "i", "p", "e">>
                 ELSE block.name) \o <<" ", "(", "R", "e", "c", "i", "p", "e", ")">>,
       source |-> "Recipe",
       chain |-> Undefined,
       foodItem |-> Undefined,
       quantity |-> amount,
       macros |-> [f \in MacroFields |-> Mul(recipeTotals[f], amount)],
       order |-> EpochMillis(t),
       perQuantityRaw |-> Undefined,
       perType |-> NoUnit,
       createdAt |-> t]

\* mealJournal and mealJournalLineItems, empty, before any call
EmptyJournal ==
  [mealJournal |-> <<>>, mealJournalLineItems |-> <<>>, result |-> ""]
\* no handler of the dashboard waits at an await
NotRunning == [step |-> "none"]
NoneInFlight == [add |-> NotRunning, save |-> NotRunning]

\* RecipeBuilder: the block a mounted builder starts with
EMPTY_BLOCK ==
  [name |-> <<>>, totalYield |-> T1, ingredients |-> <<>>, done |-> FALSE,
   amountHaving |-> T1, perError |-> ""]
\* recipeTemplates, recipeIngredients and ingredientLibrary, without the
\* timestamps and the generated ids of their records
EmptyRecipeStores ==
  [recipeTemplates |-> <<>>, recipeIngredients |-> <<>>, ingredientLibrary |-> <<>>]

\* the state a freshly mounted application is in when the clock reads t
Constructed(t, engine) ==
  /\ session = NewSession(t)
  /\ lineItems = <<>>
  /\ formData = initialFormData
  /\ formError = ""
  /\ editingId = 0
  /\ editQuantity = <<>>
  /\ currentBsl = <<>>
  /\ sessionNotes = <<>>
  /\ saveToCatalog = TRUE
  /\ mealSessions = putOne(EmptyStore, NewSession(t))
  /\ mealLineItems = EmptyStore
  /\ foodCatalog = EmptyStore
  /\ eatingOutItems = EmptyStore
  /\ editingItem = [id |-> -1]
  /\ formState = initialFormState
  /\ now = t
  /\ nextId = [line |-> 1, catalog |-> 1, library |-> 1]
  /\ history = NoHistory
  /\ eng = engine
  /\ blocks = <<EMPTY_BLOCK>>
  /\ recipeStores = EmptyRecipeStores
  /\ journal = EmptyJournal
  /\ inflight = NoneInFlight

\* the session is created when the clock reads 1
Init == Constructed(1, EngIdle)

libVars == <<eatingOutItems, editingItem, formState>>

\* the effect on [session]: setSessionNotes(session.notes ?? '')
NotesOf(s) == IF s.notes = Undefined THEN <<>> ELSE s.notes

\* updateMealSession(id, patch) keeps the stored fields the patch leaves out
HandleCategoryChange(category) ==
  /\ mealSessions' = putOne(mealSessions,
                            [mealSessions[session.id] EXCEPT !.category = category])
  /\ session' = [session EXCEPT !.category = category]
  /\ sessionNotes' = NotesOf(session')
  /\ UNCHANGED <<lineItems, formData, formError, editingId, editQuantity, currentBsl,
                 saveToCatalog, mealLineItems, foodCatalog, libVars, now, nextId,
                 history, eng, blocks, recipeStores,
                 journal, inflight>>

HandleSourceChange(source) ==
  /\ mealSessions' = putOne(mealSessions,
                            [mealSessions[session.id] EXCEPT !.primarySource = source])
  /\ session' = [session EXCEPT !.primarySource = source]
  /\ sessionNotes' = NotesOf(session')
  /\ formData' =
       IF IsFastFoodOrRestaurant(source)
       THEN [formData EXCEPT !.perQuantityUnit = IF @ = NoUnit THEN "order" ELSE @]
       ELSE [formData EXCEPT !.perQuantityUnit = NoUnit, !.chain = <<>>,
                             !.foodItem = <<>>]
  /\ blocks' = IF source = "Recipe" /\ session.primarySource = "Recipe"
               THEN blocks ELSE <<EMPTY_BLOCK>>
  /\ UNCHANGED <<lineItems, formError, editingId, editQuantity, currentBsl,
                 saveToCatalog, mealLineItems, foodCatalog, libVars, now, nextId,
                 history, eng, recipeStores,
                 journal, inflight>>


\* what the user types into the add-food form: the fields shown for the
\* source of the session take the values of the input
Kfc == <<"K", "F", "C">>
KfcTyped == <<" ", "k", "f", "c">>
Fry == <<"F", "r", "y">>
SmallProfile == MacroProfile(0)
FormInput(chain, foodItem, perQuantityRaw, unit, amountHaving, profile) ==
  WithMacros([initialFormData EXCEPT !.name = <<"P", "i", "e">>,
                                     !.chain = chain,
                                     !.foodItem = foodItem,
                                     !.servingSizeAmount = <<"1", "0", "0">>,
                                     !.perQuantityRaw = perQuantityRaw,
                                     !.perUnit = unit,
                                     !.perQuantityUnit = unit,
                                     !.amountHaving = amountHaving], profile)
FormInputs ==
  { FormInput(Kfc, Fry, <<"3">>, "piece", T1, SmallProfile),
    FormInput(KfcTyped, Fry, T1, "piece", <<"3">>, BurgerProfile) }

\* handleFormChange, once per field the form shows
FillForm(input) ==
  /\ session.primarySource # "Recipe"
  /\ formData' =
       IF IsFastFoodOrRestaurant(session.primarySource)
       THEN [input EXCEPT !.name = formData.name,
                          !.servingSizeAmount = formData.servingSizeAmount,
                          !.perUnit = formData.perUnit]
       ELSE [input EXCEPT !.chain = formData.chain,
                          !.foodItem = formData.foodItem,
                          !.perQuantityUnit = formData.perQuantityUnit]
  /\ UNCHANGED <<session, lineItems, formError, editingId, editQuantity, currentBsl,
                 sessionNotes, saveToCatalog, storeVars, editingItem, formState, now,
                 nextId, history, eng, blocks, recipeStores,
                 journal, inflight>>

\* the checkbox "Save manual entry to Eating Out Library"
SetSaveToCatalog(checked) ==
  /\ IsFastFoodOrRestaurant(session.primarySource)
  /\ saveToCatalog' = checked
  /\ UNCHANGED <<session, lineItems, formData, formError, editingId, editQuantity,
                 currentBsl, sessionNotes, storeVars, editingItem, formState, now,
                 nextId, history, eng, blocks, recipeStores,
                 journal, inflight>>

HandleBslChange(value) ==
  /\ currentBsl' = value
  /\ UNCHANGED <<session, lineItems, formData, formError, editingId, editQuantity,
                 sessionNotes, saveToCatalog, storeVars, editingItem, formState, now,
                 nextId, history, eng, blocks, recipeStores,
                 journal, inflight>>

SetSessionNotes(value) ==
  /\ sessionNotes' = value
  /\ UNCHANGED <<session, lineItems, formData, formError, editingId, editQuantity,
                 currentBsl, saveToCatalog, storeVars, editingItem, formState, now,
                 nextId, history, eng, blocks, recipeStores,
                 journal, inflight>>


\* handleAddFood: a form that fails validation only sets the error; otherwise
\* the item is stored, the catalog entry cached when the box is ticked, the
\* list reloaded and the form reset
HandleAddFood ==
  LET source == session.primarySource
      error == AddFoodFormError(source, formData)
      item == NewLineItem(nextId.line, now, session.id, source, formData,
                          Len(lineItems) + 1)
      cached == IF IsFastFoodOrRestaurant(source) /\ saveToCatalog
                THEN upsertFoodCatalogItem(foodCatalog, FormEntryInput(source, formData),
                                           now, nextId.catalog)
                ELSE foodCatalog
  IN  /\ session.primarySource # "Recipe"
      /\ IF error # ""
         THEN /\ formError' = error
              /\ UNCHANGED <<session, lineItems, formData, editingId, editQuantity,
                             currentBsl, sessionNotes, saveToCatalog, storeVars,
                             editingItem, formState, now, nextId, history, eng,
                             blocks, recipeStores,
                             journal, inflight>>
         ELSE /\ now < MaxNow
              /\ mealLineItems' = putOne(mealLineItems, item)
              /\ foodCatalog' = cached
              /\ lineItems' \in LoadedLineItems(mealLineItems', session.id)
              /\ formData' = initialFormData
              /\ formError' = ""
              /\ now' = now + 1
              /\ nextId' = [nextId EXCEPT !.line = @ + 1,
                                          !.catalog = NextFresh(@, foodCatalog, cached)]
              /\ history' =
                   [history EXCEPT
                      !.logged = putOne(@, [id |-> item.id,
                                            base |-> baseMacrosOf(formData),
                                            isPhysical |-> FormIsPhysical(source, formData),
                                            perQuantity |->
                                              parseQuantity(formData.perQuantityRaw),
                                            amountText |-> formData.amountHaving,
                                            perQuantityText |->
                                              formData.perQuantityRaw,
                                            key |-> IF IsFastFoodOrRestaurant(source)
                                                    THEN buildKey(
                                                           mapMealSourceToCatalogType(source),
                                                           Trim(formData.chain),
                                                           Trim(formData.foodItem))
                                                    ELSE <<>>,
                                            cached |-> IsFastFoodOrRestaurant(source)
                                                       /\ saveToCatalog]),
                      !.created = Created(history, cached)]
              /\ UNCHANGED <<session, editingId, editQuantity, currentBsl, sessionNotes,
                             saveToCatalog, mealSessions, libVars, eng, blocks, recipeStores,
                             journal, inflight>>

HandleEditStart(item) ==
  /\ editingId' = item.id
  /\ editQuantity' = NumToText(item.quantity)
  /\ UNCHANGED <<session, lineItems, formData, formError, currentBsl, sessionNotes,
                 saveToCatalog, storeVars, editingItem, formState, now, nextId,
                 history, eng, blocks, recipeStores,
                 journal, inflight>>

\* typing into the quantity editor of the row being edited
SetEditQuantity(value) ==
  /\ \E i \in DOMAIN lineItems : lineItems[i].id = editingId
  /\ editQuantity' = value
  /\ UNCHANGED <<session, lineItems, formData, formError, editingId, currentBsl,
                 sessionNotes, saveToCatalog, storeVars, editingItem, formState, now,
                 nextId, history, eng, blocks, recipeStores,
                 journal, inflight>>

CancelThatKeepsDraft ==
  /\ \E i \in DOMAIN lineItems : lineItems[i].id = editingId
  /\ editingId' = 0
  /\ editQuantity' = <<>>
  /\ mealLineItems' = [mealLineItems EXCEPT ![editingId].quantity =
                                               NumberOf(editQuantity)]
  /\ history' = [history EXCEPT !.cancelled = TRUE]
  /\ UNCHANGED <<session, lineItems, formData, formError, currentBsl, sessionNotes,
                 saveToCatalog, mealSessions, foodCatalog, libVars, now, nextId,
                 eng, blocks, recipeStores, journal, inflight>>
HandleEditCancel ==
  /\ \E i \in DOMAIN lineItems : lineItems[i].id = editingId
  /\ editingId' = 0
  /\ editQuantity' = <<>>
  /\ history' = [history EXCEPT !.cancelled = TRUE]
  /\ UNCHANGED <<session, lineItems, formData, formError, currentBsl, sessionNotes,
                 saveToCatalog, storeVars, editingItem, formState, now, nextId,
                 eng, blocks, recipeStores, journal, inflight>>

\* handleEditSave(item): the macros shown are scaled by newQuantity / item.quantity
EditedMacros(item, newQuantity) ==
  ScaleMacros(item.macros, Div(newQuantity, item.quantity))

HandleEditSave(item) ==
  LET newQuantity == NumberOf(editQuantity)
  IN  /\ item.id = editingId
      /\ IF IsNaN(newQuantity) \/ Le0(newQuantity)
         THEN UNCHANGED vars
         ELSE /\ now < MaxNow
              /\ mealLineItems' =
                   putOne(mealLineItems,
                          [mealLineItems[item.id] EXCEPT
                             !.quantity = newQuantity,
                             !.macros = EditedMacros(item, newQuantity)])
              /\ lineItems' \in LoadedLineItems(mealLineItems', session.id)
              /\ editingId' = 0
              /\ editQuantity' = <<>>
              /\ now' = now + 1
              /\ UNCHANGED <<session, formData, formError, currentBsl, sessionNotes,
                             saveToCatalog, mealSessions, foodCatalog, libVars,
                             nextId, history, eng, blocks, recipeStores,
                             journal, inflight>>

HandleDelete(itemId) ==
  /\ now < MaxNow
  /\ mealLineItems' = deleteOne(mealLineItems, itemId)
  /\ lineItems' \in LoadedLineItems(mealLineItems', session.id)
  /\ now' = now + 1
  /\ UNCHANGED <<session, formData, formError, editingId, editQuantity, currentBsl,
                 sessionNotes, saveToCatalog, mealSessions, foodCatalog, libVars,
                 nextId, history, eng, blocks, recipeStores,
                 journal, inflight>>


\* the catalog key a line item maps to
LineItemKey(item) ==
  buildKey(mapMealSourceToCatalogType(item.source), CatalogNames(item).chain,
           CatalogNames(item).foodItem)

\* the session object as the page holds it, stamped and flagged, without the
\* snapshot of the working items and their totals
SessionWithoutSnapshot(t) ==
  [session EXCEPT !.timestamp = t, !.saved = TRUE]

\* the record handleSaveSession builds: the session in memory with the header
\* fields, a copy of the items shown and their totals
completeSession(t) ==
  [session EXCEPT !.timestamp = t,
                  !.bsl = IF currentBsl = <<>> THEN Null ELSE NumberOf(currentBsl),
                  !.lineItems = lineItems,
                  !.totals = totals(lineItems),
                  !.saved = TRUE,
                  !.notes = sessionNotes,
                  !.createdAt = IF session.createdAt = -1 THEN t ELSE session.createdAt]

SaveWithoutRefusal ==
  LET fed == upsertEatingOutCatalogFromSession(foodCatalog, lineItems, now,
                                               nextId.catalog)
  IN  /\ now < MaxNow
      /\ mealSessions' = putOne(mealSessions, completeSession(now))
      /\ foodCatalog' = fed.store
      /\ nextId' = [nextId EXCEPT !.catalog = fed.fresh]
      /\ mealLineItems' = DeleteAll(mealLineItems, lineItems)
      /\ lineItems' = <<>>
      /\ formData' = initialFormData
      /\ currentBsl' = <<>>
      /\ sessionNotes' = <<>>
      /\ now' = now + 1
      /\ UNCHANGED <<session, formError, editingId, editQuantity, saveToCatalog,
                     libVars, history, eng, blocks, recipeStores, journal, inflight>>

\* handleSaveSession: refuses an empty session; otherwise stores the record,
\* feeds the catalog, deletes the working items and clears the working state
HandleSaveSession ==
  LET fed == upsertEatingOutCatalogFromSession(foodCatalog, lineItems, now,
                                               nextId.catalog)
  IN  IF lineItems = <<>>
      THEN UNCHANGED vars
      ELSE /\ now < MaxNow
           /\ mealSessions' = putOne(mealSessions, completeSession(now))
           /\ foodCatalog' = fed.store
           /\ nextId' = [nextId EXCEPT !.catalog = fed.fresh]
           /\ mealLineItems' = DeleteAll(mealLineItems, lineItems)
           /\ lineItems' = <<>>
           /\ formData' = initialFormData
           /\ currentBsl' = <<>>
           /\ sessionNotes' = <<>>
           /\ now' = now + 1
           /\ history' =
                [history EXCEPT
                   !.created = Created(history, fed.store),
                   !.savedKeys = Append(@, {LineItemKey(lineItems[k]) :
                                              k \in DOMAIN lineItems})]
           /\ UNCHANGED <<session, formError, editingId, editQuantity, saveToCatalog,
                          libVars, eng, blocks, recipeStores,
                          journal, inflight>>

\* the page is opened again: initSession finds the stored session of
\* ACTIVE_SESSION_KEY, and every other piece of component state starts over
Remount ==
  /\ session' = mealSessions[SessionId]
  /\ lineItems' \in LoadedLineItems(mealLineItems, SessionId)
  /\ sessionNotes' = NotesOf(session')
  /\ formData' = initialFormData
  /\ formError' = ""
  /\ editingId' = 0
  /\ editQuantity' = <<>>
  /\ currentBsl' = <<>>
  /\ saveToCatalog' = TRUE
  /\ blocks' = <<EMPTY_BLOCK>>
  /\ UNCHANGED <<storeVars, editingItem, formState, now, nextId, history, eng,
                 recipeStores,
                 journal, inflight>>

----------------------------------------------------------------------------
(* RecipeBuilder and RecipeBlock: the dashboard of a session whose source is
   Recipe shows the builder in place of the add-food form *)

IsRecipeMode == session.primarySource = "Recipe"

\* RecipeBuilder.handleUpdate for the inputs of the block: the name can be
\* typed until the ingredients are done, the amount after that
HandleUpdate(field, value) ==
  /\ IsRecipeMode
  /\ \/ field = "name" /\ ~blocks[1].done
     \/ field = "amountHaving" /\ blocks[1].done
  /\ blocks' = [blocks EXCEPT ![1] = [@ EXCEPT ![field] = value]]
  /\ UNCHANGED <<dashVars, storeVars, editingItem, formState, now, nextId, history,
                 eng, recipeStores,
                 journal, inflight>>

\* the ingredient form is submitted with the entry typed into it: the browser
\* submits only with a name and a Per text; RecipeBlock.handleAddIngredient
\* rejects a Per text that is no positive quantity, and otherwise
\* RecipeBuilder.handleAddIngredient appends the row and stores the
\* ingredient in the library
HandleAddIngredient(entry) ==
  LET parsed == parseQuantity(entry.perRaw)
      newIng == IngredientRow(entry)
  IN  /\ IsRecipeMode
      /\ ~blocks[1].done
      /\ entry.name # <<>>
      /\ entry.perRaw # <<>>
      /\ IF parsed = Null \/ (~IsNaN(parsed) /\ Sign(parsed) <= 0)
         THEN /\ blocks' = [blocks EXCEPT ![1].perError = "Invalid Per value"]
              /\ UNCHANGED <<recipeStores, history>>
         ELSE /\ Len(recipeStores.ingredientLibrary) < MaxIngredients
              /\ blocks' = [blocks EXCEPT ![1].ingredients = Append(@, newIng),
                                          ![1].perError = ""]
              /\ recipeStores' =
                   [recipeStores EXCEPT
                      !.ingredientLibrary =
                         Append(@, [name |-> newIng.name,
                                    defaults |-> [perRaw |-> newIng.perRaw,
                                                  perType |-> newIng.perType,
                                                  values |-> newIng.values]])]
              /\ history' = [history EXCEPT
                               !.entered = Append(@, [typed |-> entry.perRaw,
                                                      perRaw |-> newIng.perRaw])]
      /\ UNCHANGED <<dashVars, storeVars, editingItem, formState, now, nextId, eng,
                     journal, inflight>>

\* RecipeBuilder.handleDeleteIngredient, for the row at position i
HandleDeleteIngredient(i) ==
  /\ IsRecipeMode
  /\ ~blocks[1].done
  /\ i \in DOMAIN blocks[1].ingredients
  /\ blocks' = [blocks EXCEPT ![1].ingredients =
                  SubSeq(@, 1, i - 1) \o SubSeq(@, i + 1, Len(@))]
  /\ UNCHANGED <<dashVars, storeVars, editingItem, formState, now, nextId, history,
                 eng, recipeStores,
                 journal, inflight>>

\* RecipeBuilder.handleDone, which the button allows once the block has a name
\* and an ingredient: saveRecipeTemplate stores the recipe and its rows
HandleDone ==
  LET block == blocks[1]
      totalsForSave == computeTotals(block.ingredients)
      recipeId == Len(recipeStores.recipeTemplates) + 1
  IN  /\ IsRecipeMode
      /\ ~block.done
      /\ block.ingredients # <<>>
      /\ Trim(block.name) # <<>>
      /\ blocks' = [blocks EXCEPT ![1].done = TRUE]
      /\ recipeStores' =
           [recipeStores EXCEPT
              !.recipeTemplates =
                 Append(@, [name |-> block.name, totalYield |-> block.totalYield,
                            macros |-> totalsForSave,
                            macrosPerServing |-> totalsForSave]),
              !.recipeIngredients =
                 @ \o [k \in DOMAIN block.ingredients |->
                         [recipeId |-> recipeId, order |-> k,
                          name |-> block.ingredients[k].name,
                          perRaw |-> block.ingredients[k].perRaw,
                          perType |-> block.ingredients[k].perType,
                          values |-> block.ingredients[k].values]]]
      /\ UNCHANGED <<dashVars, storeVars, editingItem, formState, now, nextId,
                     history, eng, journal, inflight>>

\* RecipeBuilder.handleAddToMealLog, with the onAfterAdd of the dashboard: the
\* portion is stored as a line item and the list reloaded
HandleAddToMealLog ==
  LET item == RecipeLineItem(nextId.line, now, session.id, blocks[1])
  IN  /\ IsRecipeMode
      /\ blocks[1].done
      /\ now < MaxNow
      /\ mealLineItems' = putOne(mealLineItems, item)
      /\ lineItems' \in LoadedLineItems(mealLineItems', session.id)
      /\ now' = now + 1
      /\ nextId' = [nextId EXCEPT !.line = @ + 1]
      /\ history' =
           [history EXCEPT
              !.logged = putOne(@, [id |-> item.id,
                                    base |-> computeTotals(blocks[1].ingredients),
                                    isPhysical |-> FALSE,
                                    perQuantity |-> Int2Num(1),
                                    amountText |-> blocks[1].amountHaving,
                                    perQuantityText |-> T1,
                                    key |-> <<>>, cached |-> FALSE])]
      /\ UNCHANGED <<session, formData, formError, editingId, editQuantity, currentBsl,
                     sessionNotes, saveToCatalog, mealSessions, foodCatalog, libVars,
                     eng, blocks, recipeStores,
                     journal, inflight>>


----------------------------------------------------------------------------
(* repo.ts: the meal journal *)

\* the journal line item addMealJournalEntryFromSession copies from a line
\* item of the session (the display-only notes, servingSize and nameLower are
\* left out); its generated id is named after the entry and the item
QuantityOneJournalLine(journalId, item) ==
  [id |-> <<journalId, item.id>>, journalId |-> journalId, name |-> item.name,
   source |-> item.source, quantity |-> Int2Num(1), macros |-> item.macros,
   perQuantityRaw |-> item.perQuantityRaw, perType |-> item.perType,
   order |-> item.order]
JournalLineItem(journalId, item) ==
  [id |-> <<journalId, item.id>>, journalId |-> journalId, name |-> item.name,
   source |-> item.source, quantity |-> item.quantity, macros |-> item.macros,
   perQuantityRaw |-> item.perQuantityRaw, perType |-> item.perType,
   order |-> item.order]

\* the journal entry of a stored session and its listed line items, called
\* without notes and guidance
JournalEntry(id, stored, items) ==
  [id |-> id, timestamp |-> stored.timestamp, category |-> stored.category,
   primarySource |-> stored.primarySource,
   secondarySources |-> {items[k].source : k \in DOMAIN items}
                          \ {stored.primarySource},
   totals |-> totals(items), notes |-> stored.notes]

\* listMealLineItems(sessionId): the items of the session in the order of
\* their keys
RECURSIVE InKeyOrder(_)
InKeyOrder(records) ==
  IF records = {} THEN <<>>
  ELSE LET first == CHOOSE r \in records : \A q \in records : r.id <= q.id
       IN  <<first>> \o InKeyOrder(records \ {first})
listMealLineItems(store, sessionId) ==
  InKeyOrder({r \in Records(store) : r.sessionId = sessionId})

\* addMealJournalEntryFromSession(sessionId): throws for a session that is
\* not stored, before anything is written; otherwise puts the entry and one
\* journal line item per listed line item
addMealJournalEntryFromSession(sessionId) ==
  IF sessionId \notin DOMAIN mealSessions
  THEN /\ journal' = [journal EXCEPT !.result = "Session not found"]
       /\ UNCHANGED <<dashVars, storeVars, editingItem, formState, now, nextId,
                      history, eng, blocks, recipeStores, inflight>>
  ELSE   LET items == listMealLineItems(mealLineItems, sessionId)
             id == Cardinality(DOMAIN journal.mealJournal) + 1
             lines == {JournalLineItem(id, items[k]) : k \in DOMAIN items}
         IN  /\ id <= MaxJournal
             /\ journal' =
                  [mealJournal |->
                     putOne(journal.mealJournal,
                            JournalEntry(id, mealSessions[sessionId], items)),
                   mealJournalLineItems |->
                     [key \in DOMAIN journal.mealJournalLineItems
                                \cup {line.id : line \in lines} |->
                        IF key \in DOMAIN journal.mealJournalLineItems
                        THEN journal.mealJournalLineItems[key]
                        ELSE CHOOSE line \in lines : line.id = key],
                   result |-> "entry"]
             /\ UNCHANGED <<dashVars, storeVars, editingItem, formState, now,
                            nextId, history, eng, blocks, recipeStores, inflight>>

----------------------------------------------------------------------------
(* Dashboard.tsx: the handlers when IndexedDB rejects one of their requests.
   Each action is the whole run of the handler up to and including its catch
   block; history.failures keeps the handler and the message it showed *)

Failed(handler, message) ==
  /\ Len(history.failures) < MaxFailures
  /\ history' = [history EXCEPT
                   !.failures = Append(@, [handler |-> handler, message |-> message])]

\* handleCategoryChange and handleSourceChange with updateMealSession
\* rejected: the catch block writes to the console
HandleCategoryChangeFails(category) ==
  /\ Failed("handleCategoryChange", "")
  /\ UNCHANGED <<dashVars, storeVars, editingItem, formState, now, nextId, eng,
                 blocks, recipeStores, journal, inflight>>

HandleSourceChangeFails(source) ==
  /\ Failed("handleSourceChange", "")
  /\ UNCHANGED <<dashVars, storeVars, editingItem, formState, now, nextId, eng,
                 blocks, recipeStores, journal, inflight>>

\* handleAddFood for a form that passed validation, with the request of
\* `point' rejected: addMealLineItem before anything is written, or
\* upsertFoodCatalogItem after the line item is stored; the catch block sets
\* the form error, and the list is not reloaded
AddFoodFailurePoints == {"addMealLineItem", "upsertFoodCatalogItem"}
HandleAddFoodFails(point) ==
  LET source == session.primarySource
      item == NewLineItem(nextId.line, now, session.id, source, formData,
                          Len(lineItems) + 1)
  IN  /\ session.primarySource # "Recipe"
      /\ AddFoodFormError(source, formData) = ""
      /\ formError' = "Failed to add food item"
      /\ IF point = "addMealLineItem"
         THEN /\ Failed("handleAddFood", formError')
              /\ UNCHANGED <<mealLineItems, now, nextId>>
         ELSE /\ IsFastFoodOrRestaurant(source) /\ saveToCatalog
              /\ now < MaxNow
              /\ Len(history.failures) < MaxFailures
              /\ mealLineItems' = putOne(mealLineItems, item)
              /\ now' = now + 1
              /\ nextId' = [nextId EXCEPT !.line = @ + 1]
              /\ history' =
                   [history EXCEPT
                      !.logged = putOne(@, [id |-> item.id,
                                            base |-> baseMacrosOf(formData),
                                            isPhysical |-> FormIsPhysical(source, formData),
                                            perQuantity |->
                                              parseQuantity(formData.perQuantityRaw),
                                            amountText |-> formData.amountHaving,
                                            perQuantityText |->
                                              formData.perQuantityRaw,
                                            key |-> buildKey(
                                                      mapMealSourceToCatalogType(source),
                                                      Trim(formData.chain),
                                                      Trim(formData.foodItem)),
                                            cached |-> FALSE]),
                      !.failures = Append(@, [handler |-> "handleAddFood",
                                              message |-> formError'])]
      /\ UNCHANGED <<session, lineItems, formData, editingId, editQuantity,
                     currentBsl, sessionNotes, saveToCatalog, mealSessions,
                     foodCatalog, libVars, eng, blocks, recipeStores, journal,
                     inflight>>

\* handleEditSave for a valid draft with updateMealLineItem rejected, and
\* handleDelete with deleteMealLineItem rejected: the catch block alerts
HandleEditSaveFails(item) ==
  /\ item.id = editingId
  /\ Gt0(NumberOf(editQuantity))
  /\ Failed("handleEditSave", "Failed to update item")
  /\ UNCHANGED <<dashVars, storeVars, editingItem, formState, now, nextId, eng,
                 blocks, recipeStores, journal, inflight>>

HandleDeleteFails(itemId) ==
  /\ Failed("handleDelete", "Failed to delete item")
  /\ UNCHANGED <<dashVars, storeVars, editingItem, formState, now, nextId, eng,
                 blocks, recipeStores, journal, inflight>>

\* handleSaveSession for a session with items, with the request of `point'
\* rejected: saveMealSession before anything is written, or the first
\* deleteMealLineItem after the record is stored and the catalog fed; the
\* catch block alerts, and the working state is not cleared
SaveFailurePoints == {"saveMealSession", "deleteMealLineItem"}
HandleSaveSessionFails(point) ==
  LET fed == upsertEatingOutCatalogFromSession(foodCatalog, lineItems, now,
                                               nextId.catalog)
  IN  /\ lineItems # <<>>
      /\ Len(history.failures) < MaxFailures
      /\ IF point = "saveMealSession"
         THEN /\ history' =
                   [history EXCEPT
                      !.failures = Append(@, [handler |-> "handleSaveSession",
                                              message |->
                                                "Failed to save session. Please try again."])]
              /\ UNCHANGED <<mealSessions, foodCatalog, nextId, now>>
         ELSE /\ now < MaxNow
              /\ mealSessions' = putOne(mealSessions, completeSession(now))
              /\ foodCatalog' = fed.store
              /\ nextId' = [nextId EXCEPT !.catalog = fed.fresh]
              /\ now' = now + 1
              /\ history' =
                   [history EXCEPT
                      !.created = Created(history, fed.store),
                      !.savedKeys = Append(@, {LineItemKey(lineItems[k]) :
                                                 k \in DOMAIN lineItems}),
                      !.failures = Append(@, [handler |-> "handleSaveSession",
                                              message |->
                                                "Failed to save session. Please try again."])]
      /\ UNCHANGED <<dashVars, mealLineItems, libVars, eng, blocks, recipeStores,
                     journal, inflight>>

----------------------------------------------------------------------------
(* Dashboard.tsx: handlers that overlap.  No flag disables the buttons while
   a handler waits at an await, so a second click starts a handler that sees
   the state of the render in which it was clicked.  handleAddFood is cut
   before `await loadLineItems()', handleSaveSession before its loop of
   `await deleteMealLineItem(item.id)'; inflight keeps what the waiting
   handlers captured *)

MaxOverlap == 2

\* handleAddFood up to the reload: validation passed, the item is stored with
\* the order taken from the list of this render, the catalog entry cached
HandleAddFoodWrites ==
  LET source == session.primarySource
      item == NewLineItem(nextId.line, now, session.id, source, formData,
                          Len(lineItems) + 1)
      cached == IF IsFastFoodOrRestaurant(source) /\ saveToCatalog
                THEN upsertFoodCatalogItem(foodCatalog, FormEntryInput(source, formData),
                                           now, nextId.catalog)
                ELSE foodCatalog
      running == IF inflight.add.step = "none" THEN 0 ELSE inflight.add.runs
  IN  /\ session.primarySource # "Recipe"
      /\ AddFoodFormError(source, formData) = ""
      /\ running < MaxOverlap
      /\ now < MaxNow
      /\ mealLineItems' = putOne(mealLineItems, item)
      /\ foodCatalog' = cached
      /\ formError' = ""
      /\ now' = now + 1
      /\ nextId' = [nextId EXCEPT !.line = @ + 1,
                                  !.catalog = NextFresh(@, foodCatalog, cached)]
      /\ inflight' = [inflight EXCEPT !.add = [step |-> "loadLineItems",
                                                runs |-> running + 1]]
      /\ UNCHANGED <<session, lineItems, formData, editingId, editQuantity,
                     currentBsl, sessionNotes, saveToCatalog, mealSessions, libVars,
                     history, eng, blocks, recipeStores, journal>>

\* the rest of handleAddFood: the list is set to what the store holds now,
\* and the form is reset
HandleAddFoodReloads ==
  /\ inflight.add.step = "loadLineItems"
  /\ lineItems' \in LoadedLineItems(mealLineItems, session.id)
  /\ formData' = initialFormData
  /\ inflight' = [inflight EXCEPT !.add = IF @.runs = 1 THEN NotRunning
                                          ELSE [@ EXCEPT !.runs = @ - 1]]
  /\ UNCHANGED <<session, formError, editingId, editQuantity, currentBsl,
                 sessionNotes, saveToCatalog, storeVars, editingItem, formState,
                 now, nextId, history, eng, blocks, recipeStores, journal>>

\* handleSaveSession up to the loop: the record is stored and the catalog fed
\* from the list of this render, which the loop will walk
HandleSaveSessionWrites ==
  LET fed == upsertEatingOutCatalogFromSession(foodCatalog, lineItems, now,
                                               nextId.catalog)
  IN  /\ lineItems # <<>>
      /\ inflight.save.step = "none"
      /\ now < MaxNow
      /\ mealSessions' = putOne(mealSessions, completeSession(now))
      /\ foodCatalog' = fed.store
      /\ nextId' = [nextId EXCEPT !.catalog = fed.fresh]
      /\ now' = now + 1
      /\ inflight' = [inflight EXCEPT !.save = [step |-> "deleteMealLineItem",
                                                 lineItems |-> lineItems]]
      /\ UNCHANGED <<dashVars, mealLineItems, libVars, history, eng, blocks,
                     recipeStores, journal>>

\* the rest of handleSaveSession: the items of the captured list are deleted,
\* then setLineItems([]) and the resets of the header and of the form
HandleSaveSessionClears ==
  /\ inflight.save.step = "deleteMealLineItem"
  /\ mealLineItems' = DeleteAll(mealLineItems, inflight.save.lineItems)
  /\ lineItems' = <<>>
  /\ formData' = initialFormData
  /\ currentBsl' = <<>>
  /\ sessionNotes' = <<>>
  /\ inflight' = [inflight EXCEPT !.save = NotRunning]
  /\ UNCHANGED <<session, formError, editingId, editQuantity, saveToCatalog,
                 mealSessions, foodCatalog, libVars, now, nextId, history, eng,
                 blocks, recipeStores, journal>>

Categories == {"Breakfast", "Lunch"}
BslTexts == {<<"1", "2", "0">>}
NotesTexts == {<<"o", "k">>}
EditTexts == {<<"3">>, <<"0">>}

\* the meal session cycle: compose a meal, save it, compose the next one
Next ==
  \/ \E source \in DashSources : HandleSourceChange(source)
  \/ \E input \in FormInputs : FillForm(input)
  \/ \E checked \in BOOLEAN : SetSaveToCatalog(checked)
  \/ HandleAddFood
  \/ \E i \in DOMAIN lineItems : HandleDelete(lineItems[i].id)
  \/ HandleSaveSession

Spec == Init /\ [][Next]_vars

\* two meals one after the other, the session created when the clock reads 0
NextTwoMeals ==
  \/ \E source \in DashSources : HandleSourceChange(source)
  \/ \E input \in FormInputs : FillForm(input)
  \/ HandleAddFood
  \/ HandleSaveSession

InitTwoMeals == Constructed(0, EngIdle)

SpecTwoMeals == InitTwoMeals /\ [][NextTwoMeals]_vars

\* composing a meal with the inline quantity editor
NextEdit ==
  \/ \E source \in DashSources : HandleSourceChange(source)
  \/ \E input \in FormInputs : FillForm(input)
  \/ HandleAddFood
  \/ \E i \in DOMAIN lineItems : HandleEditStart(lineItems[i])
  \/ \E value \in EditTexts : SetEditQuantity(value)
  \/ HandleEditCancel
  \/ \E i \in DOMAIN lineItems : HandleEditSave(lineItems[i])
  \/ \E i \in DOMAIN lineItems : HandleDelete(lineItems[i].id)

SpecEdit == Init /\ [][NextEdit]_vars

\* what the user types into the ingredient form of a recipe block: number
\* inputs hold a decimal text; the fields left alone keep the "0" of the form
Stew == <<"S", "t", "e", "w">>
IngredientInput(name, perRaw, calories, carbs) ==
  [name |-> name, perRaw |-> perRaw, perType |-> "serving",
   values |-> [f \in MacroFields |->
                 IF f = "calories" THEN calories
                 ELSE IF f = "carbsG" THEN carbs ELSE <<"0">>]]
IngredientInputs ==
  { IngredientInput(<<"O", "i", "l">>, <<"2", "/", "3">>, T1, <<"0">>),
    IngredientInput(<<"R", "i", "c", "e">>, T1, <<"1", "3", "0">>,
                    <<"2", "8", ".", "5">>),
    IngredientInput(<<"S", "a", "l", "t">>, <<"0">>, <<"0">>, <<"0">>),
    IngredientInput(<<"S", "a", "l", "t">>, <<"a">>, <<"0">>, <<"0">>) }
\* what the number input of the portion delivers: a decimal text, or the empty
\* text while the input is empty or holds no number
RecipeAmountTexts == {<<>>, <<"0">>, <<"2">>, <<"0", ".", "5">>, <<"-", "1">>}
RecipeSources == {"Recipe", "Home Meal"}

\* a meal composed in recipe mode
NextRecipe ==
  \/ \E source \in RecipeSources : HandleSourceChange(source)
  \/ HandleUpdate("name", Stew)
  \/ \E value \in RecipeAmountTexts : HandleUpdate("amountHaving", value)
  \/ \E entry \in IngredientInputs : HandleAddIngredient(entry)
  \/ \E i \in DOMAIN blocks[1].ingredients : HandleDeleteIngredient(i)
  \/ HandleDone
  \/ HandleAddToMealLog
  \/ \E i \in DOMAIN lineItems : HandleDelete(lineItems[i].id)
  \/ HandleSaveSession

SpecRecipe == Init /\ [][NextRecipe]_vars

\* forms the validation of handleAddFood has to turn down, next to one it
\* accepts: a field left empty, a Per text that is no positive quantity, an
\* amount that is no positive number
ValidInput == FormInput(Kfc, Fry, <<"3">>, "piece", T1, SmallProfile)
RejectInputs ==
  { ValidInput,
    [ValidInput EXCEPT !.chain = <<" ">>],
    [ValidInput EXCEPT !.perQuantityUnit = NoUnit],
    [ValidInput EXCEPT !.name = <<>>],
    [ValidInput EXCEPT !.perQuantityRaw = <<"0">>],
    [ValidInput EXCEPT !.perQuantityRaw = <<"a">>],
    [ValidInput EXCEPT !.amountHaving = <<"0">>],
    [ValidInput EXCEPT !.amountHaving = <<>>] }

\* the add-food form submitted with good and with bad input
NextReject ==
  \/ \E source \in DashSources : HandleSourceChange(source)
  \/ \E input \in RejectInputs : FillForm(input)
  \/ HandleAddFood

SpecReject == Init /\ [][NextReject]_vars

\* a meal composed, corrected and saved: items are added, rescaled with the
\* inline editor and deleted, and the session is saved, with the session
\* created when the clock reads 0
NextTotals ==
  \/ \E input \in FormInputs : FillForm(input)
  \/ HandleAddFood
  \/ \E i \in DOMAIN lineItems : HandleEditStart(lineItems[i])
  \/ \E value \in EditTexts : SetEditQuantity(value)
  \/ \E i \in DOMAIN lineItems : HandleEditSave(lineItems[i])
  \/ \E i \in DOMAIN lineItems : HandleDelete(lineItems[i].id)
  \/ HandleSaveSession

SpecTotals == InitTwoMeals /\ [][NextTotals]_vars

\* one meal whose rows are opened in the inline editor, and the edit saved
\* or cancelled
NextCancel ==
  \/ \E input \in FormInputs : FillForm(input)
  \/ HandleAddFood
  \/ \E i \in DOMAIN lineItems : HandleEditStart(lineItems[i])
  \/ \E value \in EditTexts : SetEditQuantity(value)
  \/ HandleEditCancel
  \/ \E i \in DOMAIN lineItems : HandleEditSave(lineItems[i])

SpecCancel == Init /\ [][NextCancel]_vars

\* a session whose header is filled in and whose items come and go, saved
\* with and without items
NextEmptySave ==
  \/ \E value \in BslTexts : HandleBslChange(value)
  \/ \E value \in NotesTexts : SetSessionNotes(value)
  \/ \E input \in FormInputs : FillForm(input)
  \/ HandleAddFood
  \/ \E i \in DOMAIN lineItems : HandleDelete(lineItems[i].id)
  \/ HandleSaveSession

SpecEmptySave == Init /\ [][NextEmptySave]_vars

\* meals logged to the journal: the session of the dashboard, and a session
\* id that is not stored
JournalSessionIds == {SessionId, SessionId + 1}
NextJournal ==
  \/ \E input \in FormInputs : FillForm(input)
  \/ HandleAddFood
  \/ \E sessionId \in JournalSessionIds : addMealJournalEntryFromSession(sessionId)

SpecJournal == Init /\ [][NextJournal]_vars

\* a meal composed while requests to IndexedDB can be rejected
NextFail ==
  \/ \E source \in DashSources : HandleSourceChange(source)
  \/ \E input \in FormInputs : FillForm(input)
  \/ HandleAddFood
  \/ \E i \in DOMAIN lineItems : HandleEditStart(lineItems[i])
  \/ \E category \in Categories : HandleCategoryChangeFails(category)
  \/ \E source \in DashSources : HandleSourceChangeFails(source)
  \/ \E point \in AddFoodFailurePoints : HandleAddFoodFails(point)
  \/ \E i \in DOMAIN lineItems : HandleEditSaveFails(lineItems[i])
  \/ \E i \in DOMAIN lineItems : HandleDeleteFails(lineItems[i].id)
  \/ \E point \in SaveFailurePoints : HandleSaveSessionFails(point)

SpecFail == Init /\ [][NextFail]_vars

\* one meal whose add and save handlers may overlap: each is started by a
\* click and finished when its awaits resolve, in any order
NextOverlap ==
  \/ \E input \in FormInputs : FillForm(input)
  \/ HandleAddFoodWrites
  \/ HandleAddFoodReloads
  \/ HandleSaveSessionWrites
  \/ HandleSaveSessionClears
  \/ \E i \in DOMAIN lineItems : HandleDelete(lineItems[i].id)

SpecOverlap == InitTwoMeals /\ [][NextOverlap]_vars

\* the session header, and the page opened again
NextHeader ==
  \/ \E category \in Categories : HandleCategoryChange(category)
  \/ \E source \in DashSources : HandleSourceChange(source)
  \/ \E value \in BslTexts : HandleBslChange(value)
  \/ \E value \in NotesTexts : SetSessionNotes(value)
  \/ \E input \in FormInputs : FillForm(input)
  \/ HandleAddFood
  \/ HandleSaveSession
  \/ Remount

SpecHeader == Init /\ [][NextHeader]_vars

\* the derivation engine over its inputs
InitEngine ==
  \E source \in Sources, form \in EngineForms :
    Constructed(1, [EngIdle EXCEPT !.phase = "input", !.source = source,
                                   !.form = form])

NextEngine == EngLog \/ EngReject \/ EngDerive \/ EngRescale

SpecEngine == InitEngine /\ [][NextEngine]_vars

\* deriveBaseMacros over line items as the store can hand them to it
DeriveQuantities == {Rat(-1, 1), Zero, Rat(1, 2), Rat(3, 1), Rat(5, 2), NaN}
DerivePerQuantityTexts ==
  { Undefined, <<>>, <<"a">>, <<"0">>, <<"3">>, <<"1", "/", "2">>, <<"1", "/", "0">> }
DeriveUnits == {NoUnit, "piece", "g", "oz"}
DeriveMacros ==
  { [f \in MacroFields |-> Round2(Mul(baseMacrosOf(profile)[f], Rat(5, 2)))] :
      profile \in {BurgerProfile, MacroProfile(0), MacroProfile(3)} }
DeriveItem(source, perType, quantity, perQuantityRaw, macros) ==
  [id |-> 1, sessionId |-> 1, name |-> <<"F", "r", "y">>, source |-> source,
   chain |-> Undefined, foodItem |-> Undefined, quantity |-> quantity,
   macros |-> macros, order |-> 1, perQuantityRaw |-> perQuantityRaw,
   perType |-> perType, createdAt |-> 0]

InitDerive ==
  \E source \in Sources \cup {"Recipe"}, perType \in DeriveUnits,
     quantity \in DeriveQuantities, perQuantityRaw \in DerivePerQuantityTexts,
     macros \in DeriveMacros :
    Constructed(1, [EngIdle EXCEPT
                      !.phase = "scaled", !.source = source,
                      !.item = DeriveItem(source, perType, quantity, perQuantityRaw,
                                          macros)])

SpecDerive == InitDerive /\ [][EngDerive]_vars

\* parseQuantity on its own.  The texts it is given are built from their
\* parts, and each carries what the text stands for: a value, or the cause for
\* which it stands for none
DigitStrings ==
  { [text |-> <<"0">>, val |-> 0], [text |-> <<"1">>, val |-> 1],
    [text |-> <<"3">>, val |-> 3], [text |-> <<"1", "0">>, val |-> 10],
    [text |-> <<"0", "2">>, val |-> 2] }
Blanks == {<<" ">>, <<" ", " ">>}
Stands(value) == [kind |-> "value", value |-> value]
NoValue(cause) == [kind |-> cause, value |-> Zero]
DecimalCases ==
  { [text |-> <<"0">>, stands |-> Stands(Zero)],
    [text |-> <<"7">>, stands |-> Stands(Rat(7, 1))],
    [text |-> <<"2", ".", "5">>, stands |-> Stands(Rat(5, 2))],
    [text |-> <<"0", ".", "0", "7">>, stands |-> Stands(Rat(7, 100))],
    [text |-> <<"-", "1">>, stands |-> Stands(Rat(-1, 1))],
    [text |-> <<"-", "0", ".", "5">>, stands |-> Stands(Rat(-1, 2))] }
FractionCases ==
  { [text |-> n.text \o <<"/">> \o d.text,
     stands |-> IF d.val = 0 THEN NoValue("DivisionByZero")
                ELSE Stands(Rat(n.val, d.val))] : n \in DigitStrings, d \in DigitStrings }
MixedCases ==
  { [text |-> w.text \o b \o f.text,
     stands |-> IF f.stands.kind = "value"
                THEN Stands(Add(Int2Num(w.val), f.stands.value))
                ELSE f.stands] : w \in DigitStrings, b \in Blanks, f \in FractionCases }
EmptyCases ==
  { [text |-> t, stands |-> NoValue("Empty")] : t \in {<<>>, Undefined} }
UnparseableCases ==
  { [text |-> t, stands |-> NoValue("Unparseable")] :
      t \in { <<"a">>, <<"1", "/">>, <<"/", "2">>, <<"1", " ", "/", "2">>,
              <<"1", "/", " ", "2">>, <<"1", "/", "/", "2">>, <<"1", " ", "2">>,
              <<"1", "/", "2", "/", "3">>, <<"-", "1", "/", "2">>,
              <<"1", ".", "5", "/", "2">>, <<"1", " ", "-", "1", "/", "2">>,
              <<"-", "-", "1">>, <<"1", ".", ".", "2">>, <<"1", "a">>,
              <<"1", " ", "1", "/", "2", " ", "3">> } }
ParseCases ==
  DecimalCases \cup FractionCases \cup MixedCases \cup EmptyCases \cup UnparseableCases
\* the text of a case as it is typed, with blanks around it
Padded(case, before, after) ==
  IF case.text = Undefined THEN case.text ELSE before \o case.text \o after
Paddings == {<<>>, <<" ">>}

InitParse ==
  \E case \in ParseCases, before \in Paddings, after \in Paddings :
    Constructed(1, [phase |-> "text", text |-> Padded(case, before, after),
                    stands |-> case.stands])

EngParse ==
  /\ eng.phase = "text"
  /\ eng' = [phase |-> "parsed", text |-> eng.text, stands |-> eng.stands,
             result |-> parseQuantity(eng.text)]
  /\ UNCHANGED <<dashVars, storeVars, editingItem, formState, now, nextId, history,
                 blocks, recipeStores, journal, inflight>>

SpecParse == InitParse /\ [][EngParse]_vars

\* foodCatalogRepo on its own: the calls its callers make
CatalogItem(id, sourceType, chain, itemName, basisQty, profile) ==
  [id |-> id, sourceType |-> sourceType, chain |-> chain, itemName |-> itemName,
   basisQty |-> basisQty, basisUnit |-> "piece", macros |-> baseMacrosOf(profile)]
\* items without id, as handleAddFood, the session save of a new key and the
\* import pass them
UpsertInputs ==
  { CatalogItem(0, sourceType, chain, Fry, basisQty, profile) :
      sourceType \in {"FAST_FOOD", "RESTAURANT"}, chain \in {Kfc, KfcTyped},
      basisQty \in {Int2Num(1), Int2Num(3)}, profile \in {BurgerProfile, SmallProfile} }
\* the same items carrying an id: none, that of a stored entry, or an unused one
UpsertInputsWithId ==
  { [item EXCEPT !.id = id] :
      item \in UpsertInputs, id \in {0, 7} \cup DOMAIN foodCatalog }

UpsertCall(item) ==
  /\ now < MaxNow
  /\ foodCatalog' = upsertFoodCatalogItem(foodCatalog, item, now, nextId.catalog)
  /\ nextId' = [nextId EXCEPT
                  !.catalog = NextFresh(nextId.catalog, foodCatalog, foodCatalog')]
  /\ now' = now + 1
  /\ UNCHANGED <<dashVars, mealSessions, mealLineItems, eatingOutItems, editingItem,
                 formState, history, eng, blocks, recipeStores,
                 journal, inflight>>

\* deleteFoodCatalogItem(id)
DeleteCall(id) ==
  /\ id \in DOMAIN foodCatalog
  /\ foodCatalog' = deleteOne(foodCatalog, id)
  /\ UNCHANGED <<dashVars, mealSessions, mealLineItems, eatingOutItems, editingItem,
                 formState, now, nextId, history, eng, blocks, recipeStores,
                 journal, inflight>>

NextUpsert ==
  \/ \E item \in UpsertInputs : UpsertCall(item)
  \/ \E id \in DOMAIN foodCatalog : DeleteCall(id)

SpecUpsert == Init /\ [][NextUpsert]_vars


----------------------------------------------------------------------------
(* The library page: part_005 *)

ModalClosed == [id |-> -1]
Piece == <<"p", "i", "e", "c", "e">>

\* what the user types into the modal
LibraryInput(chain, itemName, profile) ==
  WithMacros([initialFormState EXCEPT !.chain = chain, !.itemName = itemName,
                                      !.basisUnit = Piece], profile)
LibraryInputs ==
  { LibraryInput(Kfc, Fry, BurgerProfile),
    LibraryInput(KfcTyped, Fry, SmallProfile) }

OpenAddModal ==
  /\ editingItem' = NoItem
  /\ formState' = initialFormState
  /\ UNCHANGED <<dashVars, storeVars, now, nextId, history, eng, blocks, recipeStores,
                 journal, inflight>>

OpenEditModal(item) ==
  /\ editingItem' = item
  /\ formState' = toFormState(item)
  /\ UNCHANGED <<dashVars, storeVars, now, nextId, history, eng, blocks, recipeStores,
                 journal, inflight>>

\* closeModal keeps the form and clears its error
CloseModal ==
  /\ editingItem # ModalClosed
  /\ editingItem' = ModalClosed
  /\ formState' = [formState EXCEPT !.formError = ""]
  /\ UNCHANGED <<dashVars, storeVars, now, nextId, history, eng, blocks, recipeStores,
                 journal, inflight>>

\* handleFieldChange, once per field of the modal
HandleFieldChange(input) ==
  /\ editingItem # ModalClosed
  /\ formState' = [input EXCEPT !.formError = formState.formError]
  /\ UNCHANGED <<dashVars, storeVars, editingItem, now, nextId, history, eng, blocks, recipeStores,
                 journal, inflight>>

\* the validation of handleSave: the message it sets, or "" when it passes
LibraryFormError(form) ==
  LET basisQty == NumberOf(form.basisQty)
  IN  IF Trim(form.chain) = <<>> THEN "Chain is required"
      ELSE IF Trim(form.itemName) = <<>> THEN "Item name is required"
      ELSE IF Trim(form.basisUnit) = <<>> THEN "Basis unit is required"
      ELSE IF ~IsNum(basisQty) \/ Le0(basisQty)
        THEN "Basis quantity must be greater than 0"
      ELSE ""

\* the payload of handleSave: the id of the entry being edited, or a fresh one
LibraryPayload(form, editing, t, fresh) ==
  [id |-> IF editing = NoItem THEN fresh ELSE editing.id,
   sourceType |-> form.sourceType, chain |-> Trim(form.chain),
   itemName |-> Trim(form.itemName), basisQty |-> NumberOf(form.basisQty),
   basisUnit |-> Trim(form.basisUnit),
   macros |-> [f \in MacroFields |-> OrZero(NumberOf(form[f]))],
   createdAt |-> IF editing = NoItem THEN t ELSE editing.createdAt,
   updatedAt |-> t]

\* handleSave of the modal: storage.updateEatingOutItem(payload), by id
LibHandleSave ==
  /\ editingItem # ModalClosed
  /\ IF LibraryFormError(formState) # ""
     THEN /\ formState' = [formState EXCEPT !.formError = LibraryFormError(formState)]
          /\ UNCHANGED <<dashVars, storeVars, editingItem, now, nextId, history, eng, blocks, recipeStores,
                         journal, inflight>>
     ELSE /\ now < MaxNow
          /\ eatingOutItems' =
               putOne(eatingOutItems,
                      LibraryPayload(formState, editingItem, now, nextId.library))
          /\ nextId' = [nextId EXCEPT !.library =
                                        IF editingItem = NoItem THEN @ + 1 ELSE @]
          /\ editingItem' = ModalClosed
          /\ formState' = [formState EXCEPT !.formError = ""]
          /\ now' = now + 1
          /\ UNCHANGED <<dashVars, mealSessions, mealLineItems, foodCatalog, history,
                         eng, blocks, recipeStores,
                         journal, inflight>>

\* handleDelete of the library page
LibHandleDelete(id) ==
  /\ eatingOutItems' = deleteOne(eatingOutItems, id)
  /\ UNCHANGED <<dashVars, mealSessions, mealLineItems, foodCatalog, editingItem,
                 formState, now, nextId, history, eng, blocks, recipeStores,
                 journal, inflight>>

\* a row of an imported file, its columns mapped
ImportRow(chain, itemName, servingSize, profile) ==
  WithMacros([initialFormState EXCEPT !.chain = chain, !.itemName = itemName,
                                      !.basisQty = servingSize], profile)
ImportFiles ==
  { << ImportRow(Kfc, Fry, <<"1", "0", "0">>, BurgerProfile) >>,
    << ImportRow(KfcTyped, Fry, <<"5", "0">>, SmallProfile),
       ImportRow(Kfc, <<>>, <<"5", "0">>, SmallProfile),
       ImportRow(Kfc, Kfc, <<"a">>, SmallProfile) >> }

\* toNumber of the library page: 0 for what is not a finite number
toNumber(text) == IF IsNum(NumberOf(text)) THEN NumberOf(text) ELSE Zero

\* mapRowToCanonical: a row without chain, item or positive size is skipped
IsCanonical(row) ==
  /\ Trim(row.chain) # <<>>
  /\ Trim(row.itemName) # <<>>
  /\ IsNum(NumberOf(row.basisQty)) /\ Gt0(NumberOf(row.basisQty))
mapRowToCanonical(row, sourceType) ==
  [id |-> 0, sourceType |-> sourceType, chain |-> Trim(row.chain),
   itemName |-> Trim(row.itemName), basisQty |-> NumberOf(row.basisQty),
   basisUnit |-> "g", macros |-> [f \in MacroFields |-> toNumber(row[f])]]

\* upsertFoodCatalogItems(items): the store and the next fresh id
RECURSIVE upsertFoodCatalogItems(_, _, _, _, _)
upsertFoodCatalogItems(store, rows, sourceType, t, fresh) ==
  IF rows = <<>> THEN [store |-> store, fresh |-> fresh]
  ELSE IF ~IsCanonical(rows[1])
    THEN upsertFoodCatalogItems(store, Tail(rows), sourceType, t, fresh)
  ELSE LET after == upsertFoodCatalogItem(store, mapRowToCanonical(rows[1], sourceType),
                                          t, fresh)
       IN  upsertFoodCatalogItems(after, Tail(rows), sourceType, t,
                                  NextFresh(fresh, store, after))

\* handleImportSubmit with the rows of a file and the source type selected
HandleImportSubmit(rows, importSourceType) ==
  LET imported == upsertFoodCatalogItems(foodCatalog, rows, importSourceType, now,
                                         nextId.catalog)
  IN  /\ now < MaxNow
      /\ foodCatalog' = imported.store
      /\ nextId' = [nextId EXCEPT !.catalog = imported.fresh]
      /\ history' = [history EXCEPT !.created = Created(history, imported.store)]
      /\ now' = now + 1
      /\ UNCHANGED <<dashVars, mealSessions, mealLineItems, eatingOutItems,
                     editingItem, formState, eng, blocks, recipeStores,
                     journal, inflight>>

NextLibrary ==
  \/ OpenAddModal
  \/ \E i \in DOMAIN eatingOutItems : OpenEditModal(eatingOutItems[i])
  \/ CloseModal
  \/ \E input \in LibraryInputs : HandleFieldChange(input)
  \/ LibHandleSave
  \/ \E i \in DOMAIN eatingOutItems : LibHandleDelete(i)
  \/ \E rows \in ImportFiles, sourceType \in {"FAST_FOOD", "RESTAURANT"} :
       HandleImportSubmit(rows, sourceType)

SpecLibrary == Init /\ [][NextLibrary]_vars

----------------------------------------------------------------------------
(* Properties of the derivation engine, under SpecEngine *)

EngBase == baseMacrosOf(eng.form)
EngAmount == NumberOf(eng.form.amountHaving)
EngPerQuantity == parseQuantity(eng.form.perQuantityRaw)
EngLogged == eng.phase \in {"scaled", "derived", "rescaled"}
\* a number of whole hundredths
IsCents(x) == IsNum(x) /\ 100 % x.d = 0

\* C1: round-trip idempotence.  Whenever a logged profile M is put through
\* the inverse derivation and scaled forward again with the same amount, per
\* quantity and unit, the result is M in all seven fields.
C1_RoundTrip == eng.phase = "rescaled" => eng.again = eng.item.macros

\* C2 as stated: for every count-unit item, the inverse derivation returns
\* the base profile the item was logged from, in all seven fields.
C2_BaseRecoveryAlways ==
  (eng.phase = "derived" /\ ~isPhysicalBasisUnit(eng.item.perType))
    => eng.base = EngBase

\* C2, amended: for a count-unit item whose amount having is at least the per
\* quantity, the inverse derivation returns exactly every field of the base
\* profile that is a whole number of hundredths.
C2_BaseRecovery ==
  (/\ eng.phase = "derived"
   /\ ~isPhysicalBasisUnit(eng.item.perType)
   /\ Le0(Add(EngPerQuantity, Mul(Int2Num(-1), EngAmount))))
    => \A f \in MacroFields : IsCents(EngBase[f]) => eng.base[f] = EngBase[f]

\* a count-unit item of one and a half times the basis, a field of 0.07
\* logged as 0.11 and recovered as 0.07
C2_Witness ==
  /\ eng.phase = "derived"
  /\ ~isPhysicalBasisUnit(eng.item.perType)
  /\ Div(EngAmount, EngPerQuantity) = Rat(3, 2)
  /\ EngBase.fatG = Rat(7, 100)
  /\ eng.item.macros.fatG = Rat(11, 100)
  /\ eng.base.fatG = Rat(7, 100)

C4_CountScaling ==
  (EngLogged /\ ~isPhysicalBasisUnit(eng.item.perType))
    => \A f \in MacroFields :
         eng.item.macros[f] = Round2(Mul(EngBase[f], Div(EngAmount, EngPerQuantity)))

\* a base stated per 2 with amount having 1: 5 becomes 2.5
C4_Witness ==
  /\ eng.phase = "scaled"
  /\ ~isPhysicalBasisUnit(eng.item.perType)
  /\ EngPerQuantity = Int2Num(2)
  /\ EngAmount = Int2Num(1)
  /\ EngBase.fiberG = Int2Num(5)
  /\ eng.item.macros.fiberG = Rat(5, 2)


----------------------------------------------------------------------------
(* Properties of the dashboard and the stores *)

\* a step that completes a session save: the only one that both writes the
\* session record and reads the clock
SaveStep == mealSessions' # mealSessions /\ now' # now
SavedRecord == mealSessions[SessionId]

\* C5: every working line item's stored macros are what forward scaling of
\* the base it was logged from gives at its present quantity, whatever edits
\* it went through.
C5_EditEqualsFreshLog ==
  \A i \in DOMAIN mealLineItems :
    mealLineItems[i].macros
      = [f \in MacroFields |->
           Round2(Mul(history.logged[i].base[f],
                      IF history.logged[i].isPhysical THEN mealLineItems[i].quantity
                      ELSE Div(mealLineItems[i].quantity,
                               history.logged[i].perQuantity)))]

\* C6: a session save leaves the basis quantity, the basis unit and the seven
\* macro fields of every catalog entry whose key a saved Fast Food or
\* Restaurant line item maps to as they were before the save.
C6_ExistingWins ==
  [][SaveStep =>
       \A i \in DOMAIN foodCatalog :
         (\E k \in DOMAIN lineItems :
            /\ lineItems[k].source \in {"Fast Food", "Restaurant"}
            /\ LineItemKey(lineItems[k]) = foodCatalog[i].key)
           => /\ i \in DOMAIN foodCatalog'
              /\ foodCatalog'[i].basisQty = foodCatalog[i].basisQty
              /\ foodCatalog'[i].basisUnit = foodCatalog[i].basisUnit
              /\ foodCatalog'[i].macros = foodCatalog[i].macros]_vars

\* a save has just rewritten an entry that existed before it, and the base
\* derived from the saved item differs from what the entry holds
C6_Witness ==
  /\ SavedRecord.saved
  /\ lineItems = <<>>
  /\ \E i \in DOMAIN foodCatalog, k \in DOMAIN SavedRecord.lineItems :
       /\ LineItemKey(SavedRecord.lineItems[k]) = foodCatalog[i].key
       /\ foodCatalog[i].updatedAt = SavedRecord.timestamp
       /\ foodCatalog[i].createdAt < SavedRecord.timestamp
       /\ deriveBaseMacros(SavedRecord.lineItems[k]) # foodCatalog[i].macros

\* C7: when two sessions have been saved one after the other, each with a
\* line item of the key of a catalog entry created during the first, the
\* entry still has the macro fields it was created with.
C7_FirstEntryKept ==
  \A i \in DOMAIN foodCatalog :
    (/\ Len(history.savedKeys) = 2
     /\ history.created[i].saves = 0
     /\ foodCatalog[i].key \in history.savedKeys[1]
     /\ foodCatalog[i].key \in history.savedKeys[2])
      => foodCatalog[i].macros = history.created[i].macros

\* C8: once the session record is saved, no step changes it.
C8_SnapshotImmutable ==
  [][SavedRecord.saved => mealSessions'[SessionId] = SavedRecord]_vars

RECURSIVE FieldSum(_, _)
FieldSum(items, f) ==
  IF items = <<>> THEN Zero ELSE Add(items[1].macros[f], FieldSum(Tail(items), f))

\* C9: a session save stores a record that holds exactly the working line
\* items shown before it and their field-wise sums, and leaves no working
\* line item of the session in memory or in the line-item store.
C9_SaveEffect ==
  [][SaveStep =>
       /\ mealSessions'[SessionId].saved
       /\ mealSessions'[SessionId].lineItems = lineItems
       /\ \A f \in MacroFields :
            mealSessions'[SessionId].totals[f] = FieldSum(lineItems, f)
       /\ lineItems' = <<>>
       /\ \A i \in DOMAIN mealLineItems' :
            mealLineItems'[i].sessionId # session.id]_vars

\* a save of two items has just completed
C9_Witness ==
  /\ SavedRecord.saved
  /\ SavedRecord.timestamp = now - 1
  /\ Len(SavedRecord.lineItems) = 2
  /\ SavedRecord.lineItems[1].macros # SavedRecord.lineItems[2].macros
  /\ SavedRecord.totals.calories
       = Add(SavedRecord.lineItems[1].macros.calories,
             SavedRecord.lineItems[2].macros.calories)
  /\ lineItems = <<>>
  /\ mealLineItems = EmptyStore

\* C10: no two entries of the catalog share a key, in the store of the food
\* catalog and in the store the library page edits.
C10_KeysUnique ==
  /\ \A i, j \in DOMAIN foodCatalog :
       KeyOfEntry(foodCatalog[i]) = KeyOfEntry(foodCatalog[j]) => i = j
  /\ \A i, j \in DOMAIN eatingOutItems :
       KeyOfEntry(eatingOutItems[i]) = KeyOfEntry(eatingOutItems[j]) => i = j

----------------------------------------------------------------------------
(* Properties of the inverse derivation and of forward scaling *)

DerivedOnPhysicalPath ==
  [f \in MacroFields |->
     Round2(Div(eng.item.macros[f],
                IF Gt0(eng.item.quantity) THEN eng.item.quantity ELSE Int2Num(1)))]

C19_CountPath ==
  LET raw == eng.item.perQuantityRaw
      parsed == IF raw = Undefined THEN Int2Num(1) ELSE parseQuantity(raw)
      perQuantity == IF parsed = Null THEN Int2Num(1) ELSE parsed
      multiplier == IF Gt0(perQuantity) THEN Div(eng.item.quantity, perQuantity)
                    ELSE Int2Num(1)
      divisor == IF Gt0(multiplier) THEN multiplier ELSE Int2Num(1)
  IN  (/\ eng.phase = "derived"
       /\ ~(/\ eng.item.source \in {"Fast Food", "Restaurant"}
            /\ isPhysicalBasisUnit(eng.item.perType)))
        => /\ Gt0(divisor)
           /\ \A f \in MacroFields :
                /\ eng.base[f] = Round2(Div(eng.item.macros[f], divisor))
                /\ IsNum(eng.base[f])

\* three pieces logged per half a piece: the divisor is 6
C19_Witness ==
  /\ eng.phase = "derived"
  /\ eng.item.perType = "piece"
  /\ eng.item.quantity = Rat(3, 1)
  /\ eng.item.perQuantityRaw = <<"1", "/", "2">>
  /\ eng.item.macros.calories = Rat(375, 1)
  /\ eng.base.calories = Rat(125, 2)

\* the amounts of the form inputs above the one logged
LargerAmounts ==
  {t \in AmountTexts : /\ IsNum(NumberOf(t))
                       /\ Gt0(Add(NumberOf(t), Mul(Int2Num(-1), EngAmount)))}
ScaledAt(t) ==
  calculatedMacros(EngBase, eng.source, [eng.form EXCEPT !.amountHaving = t])
Minus(x, y) == Add(x, Mul(Int2Num(-1), y))

\* the unit the form logs the item with
FormUnit ==
  IF eng.source \in {"Fast Food", "Restaurant"} THEN eng.form.perQuantityUnit
  ELSE eng.form.perUnit
MonotoneFrom(t, f) ==
  /\ ~Gt0(Minus(eng.item.macros[f], ScaledAt(t)[f]))
  /\ ~Gt0(Minus(Rat(1, 100),
                Minus(Mul(EngBase[f], NumberOf(t)), Mul(EngBase[f], EngAmount))))
       => Gt0(Minus(ScaledAt(t)[f], eng.item.macros[f]))

----------------------------------------------------------------------------
(* Properties of foodCatalogRepo *)

KeyHolders(store, key) == {i \in DOMAIN store : store[i].key = key}
SameFields(entry, item) ==
  /\ entry.sourceType = item.sourceType
  /\ entry.basisQty = item.basisQty
  /\ entry.basisUnit = item.basisUnit
  /\ entry.macros = item.macros

\* what upsert-by-key asks of the store after a call with item at time t
UpsertContract(store, item, t, after) ==
  LET key == buildKey(item.sourceType, item.chain, item.itemName)
      holders == KeyHolders(store, key)
  IN  IF holders # {}
      THEN /\ DOMAIN after = DOMAIN store
           /\ KeyHolders(after, key) = holders
           /\ \A i \in holders :
                /\ SameFields(after[i], item)
                /\ after[i].id = i
                /\ after[i].createdAt = store[i].createdAt
                /\ after[i].updatedAt = t
           /\ \A i \in DOMAIN store \ holders : after[i] = store[i]
      ELSE \E new \in DOMAIN after \ DOMAIN store :
             /\ DOMAIN after = DOMAIN store \cup {new}
             /\ SameFields(after[new], item)
             /\ after[new].key = key
             /\ after[new].createdAt = t
             /\ after[new].updatedAt = t
             /\ \A i \in DOMAIN store : after[i] = store[i]

----------------------------------------------------------------------------
(* Properties of the catalog insertion at a session save *)

EatingOut(item) == item.source \in {"Fast Food", "Restaurant"}
\* the entry of the catalog after the step that a saved line item stands for
InsertedFor(item) ==
  LET parsed == parseQuantity(item.perQuantityRaw)
  IN  {i \in DOMAIN foodCatalog' \ DOMAIN foodCatalog :
         /\ foodCatalog'[i].key = LineItemKey(item)
         /\ foodCatalog'[i].macros = deriveBaseMacros(item)
         /\ foodCatalog'[i].basisQty = (IF parsed # Null /\ Gt0(parsed) THEN parsed
                                        ELSE Int2Num(1))
         /\ foodCatalog'[i].basisUnit = item.perType}
NewKeyAtSave(k) ==
  /\ EatingOut(lineItems[k])
  /\ KeyHolders(foodCatalog, LineItemKey(lineItems[k])) = {}
OnlyEatingOutInserts ==
  \A i \in DOMAIN foodCatalog' \ DOMAIN foodCatalog :
    \E k \in DOMAIN lineItems :
      EatingOut(lineItems[k]) /\ foodCatalog'[i].key = LineItemKey(lineItems[k])

\* C12, as stated: a session save inserts, for each Fast Food or Restaurant
\* line item whose key the catalog did not hold, exactly one entry with the
\* inverse derivation of that item, its parsed per quantity and its unit; no
\* entry is inserted for a line item of another source.
C12_InsertPerItem ==
  [][SaveStep =>
       /\ \A k \in DOMAIN lineItems :
            NewKeyAtSave(k)
              => /\ Cardinality(KeyHolders(foodCatalog', LineItemKey(lineItems[k]))) = 1
                 /\ Cardinality(InsertedFor(lineItems[k])) = 1
       /\ OnlyEatingOutInserts]_vars

\* C12, amended: a session save inserts exactly one entry per key the catalog
\* did not hold, built from the first Fast Food or Restaurant line item of
\* that key in the order shown; later items of the same key leave it as it is.
C12_InsertPerKey ==
  [][SaveStep =>
       /\ \A k \in DOMAIN lineItems :
            (/\ NewKeyAtSave(k)
             /\ \A j \in 1..(k - 1) :
                  ~(/\ EatingOut(lineItems[j])
                    /\ LineItemKey(lineItems[j]) = LineItemKey(lineItems[k])))
              => /\ Cardinality(KeyHolders(foodCatalog', LineItemKey(lineItems[k]))) = 1
                 /\ Cardinality(InsertedFor(lineItems[k])) = 1
       /\ OnlyEatingOutInserts]_vars

\* a save has just inserted one entry for two items of one key that derive
\* to different bases: it holds the base of the first
C12_Witness ==
  /\ SavedRecord.saved
  /\ lineItems = <<>>
  /\ \E i \in DOMAIN foodCatalog, j, k \in DOMAIN SavedRecord.lineItems :
       /\ j < k
       /\ foodCatalog[i].createdAt = SavedRecord.timestamp
       /\ LineItemKey(SavedRecord.lineItems[j]) = foodCatalog[i].key
       /\ LineItemKey(SavedRecord.lineItems[k]) = foodCatalog[i].key
       /\ EatingOut(SavedRecord.lineItems[j])
       /\ EatingOut(SavedRecord.lineItems[k])
       /\ foodCatalog[i].macros = deriveBaseMacros(SavedRecord.lineItems[j])
       /\ foodCatalog[i].macros # deriveBaseMacros(SavedRecord.lineItems[k])

----------------------------------------------------------------------------
(* Properties of the line items of a session *)

\* C13: every line item stored for a session, whether it came from the
\* add-food form, from the recipe builder or from the inline quantity editor,
\* has a quantity that is a number above 0.
C13_QuantityPositive ==
  \A i \in DOMAIN mealLineItems : Gt0(mealLineItems[i].quantity)

\* a text the user entered for an amount stands for a number
EnteredNumber(text) == Trim(text) # <<>> /\ ~IsNaN(NumberOf(text))

\* C15: whenever an item is logged, by the add-food form or as a recipe
\* portion, the amount text it was logged with stands for a number and its
\* Per text parses, and every recipe ingredient keeps the Per text that was
\* typed: no text that fails to parse is replaced by 0 or by a default.
C15_NoSilentSubstitution ==
  /\ \A i \in DOMAIN history.logged :
        /\ EnteredNumber(history.logged[i].amountText)
        /\ parseQuantity(history.logged[i].perQuantityText) # Null
  /\ \A k \in DOMAIN history.entered :
        /\ parseQuantity(history.entered[k].typed) # Null
        /\ history.entered[k].perRaw = history.entered[k].typed

\* C17: every macro field of every line item stored for a session is a
\* multiple of 0.01, whether the item was logged by the add-food form,
\* rescaled by the inline editor or logged as a recipe portion.
C17_TwoDecimals ==
  \A i \in DOMAIN mealLineItems : \A f \in MacroFields :
     IsCents(mealLineItems[i].macros[f])

----------------------------------------------------------------------------
(* Properties of a rejected submit of the add-food form *)

\* the form of the dashboard lacks a field its source requires, its Per text
\* is no positive quantity, or its amount is no positive number
MissingRequired ==
  IF IsFastFoodOrRestaurant(session.primarySource)
  THEN \/ Trim(formData.chain) = <<>>
       \/ Trim(formData.foodItem) = <<>>
       \/ formData.perQuantityUnit = NoUnit
  ELSE \/ Trim(formData.name) = <<>>
       \/ Trim(formData.servingSizeAmount) = <<>>
BadPerQuantity ==
  \/ parseQuantity(formData.perQuantityRaw) = Null
  \/ ~Gt0(parseQuantity(formData.perQuantityRaw))
BadAmountHaving == ~Gt0(NumberOf(formData.amountHaving))
RejectedInput == MissingRequired \/ BadPerQuantity \/ BadAmountHaving

\* C14: a submit of the add-food form with a missing required field, with a
\* Per text that does not parse or is not positive, or with an amount that is
\* no number or not positive sets the inline error and writes neither a line
\* item nor a catalog entry; the line items shown and their totals stay as
\* they were.
C14_RejectedUnchanged ==
  [][(RejectedInput /\ HandleAddFood) =>
       /\ formError' # ""
       /\ mealLineItems' = mealLineItems
       /\ foodCatalog' = foodCatalog
       /\ lineItems' = lineItems
       /\ totals(lineItems') = totals(lineItems)]_vars

\* a session that holds a logged item shows the error of the bad form that
\* was submitted after it
C14_Witness ==
  /\ RejectedInput
  /\ formError # ""
  /\ formError = AddFoodFormError(session.primarySource, formData)
  /\ lineItems # <<>>
  /\ DOMAIN mealLineItems = {lineItems[k].id : k \in DOMAIN lineItems}

----------------------------------------------------------------------------
(* Properties of the session totals *)

\* the line items the store holds for the session of the dashboard
StoredItems == {r \in Records(mealLineItems) : r.sessionId = session.id}

\* the sum of one macro field over a set of line items
RECURSIVE SumOver(_, _)
SumOver(items, f) ==
  IF items = {} THEN Zero
  ELSE LET r == CHOOSE x \in items : TRUE
       IN  Add(r.macros[f], SumOver(items \ {r}, f))

\* C16: whatever items were added, rescaled, deleted and saved, each of the
\* seven totals the dashboard shows is the sum of that field over the line
\* items the session holds at that moment, and is 0 when it holds none.
C16_TotalsAreSums ==
  \A f \in MacroFields :
     /\ totals(lineItems)[f] = SumOver(StoredItems, f)
     /\ StoredItems = {} => totals(lineItems)[f] = Zero

\* the session holds two items, one of them rescaled by the inline editor,
\* and the totals are not those of a single item
C16_Witness ==
  /\ Cardinality(StoredItems) = 2
  /\ \E r \in StoredItems :
        r.quantity # NumberOf(history.logged[r.id].amountText)
  /\ \A r \in StoredItems : totals(lineItems).calories # r.macros.calories

----------------------------------------------------------------------------
(* Properties of parseQuantity *)

\* the result parseQuantity gives for a text of the cases, with no blanks added
ResultFor(case) == parseQuantity(case.text)

\* C21: parseQuantity reports the cause of a failure: a text that stands for
\* no value gets a result that is no number and that differs from the result
\* of every text that fails for another cause (Empty, DivisionByZero,
\* Unparseable).
C21_FailureKinds ==
  (eng.phase = "parsed" /\ eng.stands.kind # "value") =>
     /\ ~IsNum(eng.result)
     /\ \A other \in ParseCases :
           (other.stands.kind # "value" /\ other.stands.kind # eng.stands.kind)
              => ResultFor(other) # eng.result

\* C22: a text n/d or w n/d of digit strings with a denominator that is not 0,
\* and a decimal text, zero and negative ones included, is parsed to the value
\* it stands for, whatever blanks surround it.
C22_Values ==
  (eng.phase = "parsed" /\ eng.stands.kind = "value") =>
     eng.result = eng.stands.value

\* the mixed number "10  3/02", with blanks around it, parsed to 23/2
C22_Witness ==
  /\ eng.phase = "parsed"
  /\ eng.text = <<" ", "1", "0", " ", " ", "3", "/", "0", "2", " ">>
  /\ eng.result = Rat(23, 2)

----------------------------------------------------------------------------
(* Properties of the inline quantity editor *)

\* a step of an edit that is not saved: the editor is opened on a row, the
\* draft quantity is typed, the edit is cancelled
EditStartStep == \E i \in DOMAIN lineItems : HandleEditStart(lineItems[i])
EditTypeStep == \E value \in EditTexts : SetEditQuantity(value)

\* C23: opening the inline editor, typing a draft quantity and cancelling
\* leave the stored line items, the session record and the catalog as they
\* were, and the list shown with them; the cancel clears the editing id and
\* the draft.
C23_CancelFrame ==
  [][(EditStartStep \/ EditTypeStep \/ HandleEditCancel) =>
       /\ UNCHANGED <<mealLineItems, mealSessions, foodCatalog, lineItems, session>>
       /\ HandleEditCancel => (editingId' = 0 /\ editQuantity' = <<>>)]_vars

\* an edit was cancelled and no editor is open: the items stored are those
\* logged, each with the quantity it was logged with
C23_Witness ==
  /\ history.cancelled
  /\ editingId = 0
  /\ editQuantity = <<>>
  /\ mealLineItems # <<>>
  /\ \A i \in DOMAIN mealLineItems :
        mealLineItems[i].quantity = NumberOf(history.logged[i].amountText)

----------------------------------------------------------------------------
(* Properties of the order of the line items *)

\* C28: the line items stored for the session have different order values,
\* and those added later have the larger ones, so that the sort by order
\* lists them as they were added, whatever was added and deleted before.
C28_OrderUnique ==
  \A i, j \in DOMAIN mealLineItems :
     i < j => mealLineItems[i].order < mealLineItems[j].order

----------------------------------------------------------------------------
(* Properties of the save of an empty session *)

\* C29: a save of a session that shows no line items writes no session
\* record, creates and changes no catalog entry, and leaves the blood-sugar
\* value, the notes and the form fields as they were.
C29_EmptySaveRefused ==
  [][(lineItems = <<>> /\ HandleSaveSession) =>
       UNCHANGED <<mealSessions, foodCatalog, mealLineItems, currentBsl,
                   sessionNotes, formData>>]_vars

\* the session a refused save leaves as it found it: no items after the one
\* that was logged has been deleted, a header and a form that are filled in,
\* and a session record that is not saved
C29_Witness ==
  /\ lineItems = <<>>
  /\ history.logged # <<>>
  /\ currentBsl # <<>>
  /\ sessionNotes # <<>>
  /\ formData # initialFormData
  /\ ~mealSessions[SessionId].saved
  /\ ENABLED HandleSaveSession

----------------------------------------------------------------------------
(* Properties of the catalog opt-out *)

\* C26: a Fast Food or Restaurant item logged with the box 'Save manual entry
\* to Eating Out Library' unchecked brings no entry into the catalog: as long
\* as every item logged with a key was logged with the box unchecked, the
\* catalog holds no entry with that key, after the item is logged and after
\* the session is saved.
C26_OptOutHonoured ==
  \A i \in DOMAIN history.logged :
     LET key == history.logged[i].key
     IN  (/\ key # <<>>
          /\ \A j \in DOMAIN history.logged :
                history.logged[j].key = key => ~history.logged[j].cached)
         => KeyHolders(foodCatalog, key) = {}

----------------------------------------------------------------------------
(* Properties of the meal journal *)

\* the entries and the journal line items a step adds
NewEntries == DOMAIN journal'.mealJournal \ DOMAIN journal.mealJournal
NewLines ==
  {journal'.mealJournalLineItems[key] :
     key \in DOMAIN journal'.mealJournalLineItems
               \ DOMAIN journal.mealJournalLineItems}
\* a journal line item carries the name, quantity, macros and basis of an item
CopyOf(line, item) ==
  /\ line.name = item.name
  /\ line.quantity = item.quantity
  /\ line.macros = item.macros
  /\ line.perQuantityRaw = item.perQuantityRaw
  /\ line.perType = item.perType

\* C25: a call of addMealJournalEntryFromSession for a stored session adds one
\* journal entry whose seven totals are the sums over the line items stored
\* for the session, and one journal line item per such line item with its
\* name, quantity, macros and basis fields; the session and its line items
\* stay as they are.  A call for a session id that is not stored throws and
\* writes nothing.
C25_JournalFromSession ==
  [][\A sessionId \in JournalSessionIds :
       addMealJournalEntryFromSession(sessionId) =>
         /\ UNCHANGED <<mealSessions, mealLineItems, foodCatalog>>
         /\ IF sessionId \in DOMAIN mealSessions
            THEN /\ Cardinality(NewEntries) = 1
                 /\ \A e \in NewEntries : \A f \in MacroFields :
                       journal'.mealJournal[e].totals[f] = SumOver(StoredItems, f)
                 /\ Cardinality(NewLines) = Cardinality(StoredItems)
                 /\ \A item \in StoredItems :
                       \E line \in NewLines :
                          CopyOf(line, item) /\ line.journalId \in NewEntries
            ELSE /\ NewEntries = {}
                 /\ NewLines = {}
                 /\ journal'.result = "Session not found"]_vars

\* the journal holds an entry with two line items and totals that are not
\* those of one of them
C25_Witness ==
  \E e \in DOMAIN journal.mealJournal :
     /\ Cardinality({key \in DOMAIN journal.mealJournalLineItems :
                       journal.mealJournalLineItems[key].journalId = e}) = 2
     /\ \A key \in DOMAIN journal.mealJournalLineItems :
           journal.mealJournal[e].totals.calories
             # journal.mealJournalLineItems[key].macros.calories

----------------------------------------------------------------------------
(* Properties of the handlers when a request is rejected *)

\* C24: whenever a request to IndexedDB is rejected inside a handler of the
\* dashboard (add food, edit, delete, save session, change of category or of
\* source), the handler shows a failure message to the user.
C24_FailureShown ==
  \A k \in DOMAIN history.failures : history.failures[k].message # ""

\* C27: a run of handleAddFood that ends with the message 'Failed to add food
\* item' has added no line item to the store.
C27_AddAllOrNothing ==
  [][\A point \in AddFoodFailurePoints :
       (HandleAddFoodFails(point) /\ formError' = "Failed to add food item")
          => mealLineItems' = mealLineItems]_vars

----------------------------------------------------------------------------
(* Properties of overlapping handlers *)

\* the line items the store holds for the active session
PersistedItems ==
  {r \in Records(mealLineItems) : r.sessionId = session.id}

\* C30: whenever no add or save handler is waiting at an await, the list of
\* line items on the dashboard holds exactly the line items the store holds
\* for the active session, also after two handlers have overlapped.
C30_ViewConsistent ==
  inflight = NoneInFlight
    => {lineItems[k] : k \in DOMAIN lineItems} = PersistedItems

=============================================================================
